---- MODULE Spec2Model ----
(***************************************************************************)
(* State-machine model of the PhilGEPS bid scraper.                        *)
(*                                                                         *)
(* Two implementations of the same pipeline live in the repository:       *)
(*   "scrapling"  : scraper/philgeps_scraper.py (PostgreSQL, asyncpg)      *)
(*   "playwright" : scraper/philgeps_scraper_playwright.py (SQLite)        *)
(* The variable `variant` says which class a behaviour runs.               *)
(***************************************************************************)
EXTENDS Integers, Sequences, FiniteSets, TLC

VARIABLES
    variant,        \* which PhilGEPSScraper class is in use
    db,             \* committed storage: bid_opportunities and bid_line_items
    txn,            \* per connection: the open (uncommitted) SQLite transaction
    lock,           \* SQLite write lock holder (0 = free)
    conn,           \* per run: storage connection "none" | "open" | "closed"
    pc,             \* per run: position in the persistence code
    bids,           \* per run: the list of bid dicts being persisted
    idx,            \* per run: index of the bid being persisted (for bid in bids)
    item_idx,       \* per run: index of the line item being inserted
    is_new,         \* per run: result of the existence check (True = not stored yet)
    counts,         \* per run: new_count / updated_count / failed_count / saved_count
    attempted,      \* history: reference numbers whose persistence was attempted, in order
    old_items,      \* history: line items stored for the current bid when its persistence began
    rec_err,        \* history: a storage call raised while persisting the current bid
    call_err,       \* history: a storage call raised during the current call
    fresh,          \* history: reference numbers not stored when the current call began
    prev            \* history: the preceding call, when it persisted one fresh bid without error

\* The scrape run (listing index and detail fetches)
VARIABLES
    source,          \* the site's listing: page n is source[n], pages past its end are empty
    max_pages,       \* the page cap; 0 stands for None (and for 0, which Python treats alike)
    session,         \* the site accepts the browser profile's session
    logged_in,       \* self.logged_in
    step,            \* where the run is
    current_page,    \* current_page of the listing loop
    on_login,        \* the response held landed on the login path
    all_bids,        \* the summaries collected so far
    list_fetches,    \* per page index, the fetches the listing loop issued for it
    probes,          \* loads of the page-1 listing URL made by ensure_logged_in
    ensures,         \* calls of ensure_logged_in in this run
    undelivered,     \* a page was read from a login response or its extraction raised
    bid_idx,         \* index into all_bids of the detail loop
    detail_fetches,  \* fetches issued for the detail page of the bid at bid_idx
    detail_landed,   \* a detail fetch for the bid at bid_idx landed on the login path
    detailed         \* per bid processed, what its detail fetch gave

\* The scrape run (login, inputs, outcome)
VARIABLES
    auto_attempts,   \* calls of login_automated in the last ensure_logged_in call
    auto_failed,     \* those of them that did not succeed
    manual_attempts, \* calls of login_manual in the last ensure_logged_in call
    ensure_ret,      \* what the last ensure_logged_in call returned
    cookies,         \* the cookie jar in self.cookies (0: None)
    fetch_details,   \* run_daily_scrape(fetch_details=...)
    filters,         \* run_daily_scrape(filters=...)
    result,          \* what run_daily_scrape returned
    escaped,         \* message of the exception that left a phase of the run
    exc_raised,      \* an exception was raised somewhere in the run
    bid_list,        \* bid_list of run_daily_scrape
    detailed_bids,   \* the bid dicts after phase 2
    handed,          \* the bid dicts handed to persistence
    writes,          \* persistence calls issued by the run
    errors           \* detail errors recorded by the run

\* The scrape run (pacing and statistics)
VARIABLES
    delayed,         \* a delay step was taken since the last detail fetch
    extraction_errors, \* ExtractionError count of self.stats['errors']
    total_operations, \* len(bid_list) when the run computed its rate
    total_errors,    \* sum(self.stats['errors'].values()) when the run computed its rate
    success_rate     \* success_rate of the result, as a fraction in lowest terms

\* The trigger layer (api.py, scheduler.py)
VARIABLES
    scraping_in_progress, \* the global flag of api.py
    last_scrape_result,   \* the global last_scrape_result of api.py
    job,                  \* per /scrape/trigger request: where its background job is
    sched                 \* where the scheduled daily_scrape_job is

loginVars == <<auto_attempts, auto_failed, manual_attempts, ensure_ret, cookies>>

inputVars == <<fetch_details, filters>>

outcomeVars == <<result, escaped, exc_raised>>

runVars == <<bid_list, detailed_bids, handed, writes, errors>>

statVars == <<delayed, extraction_errors, total_operations, total_errors, success_rate>>

triggerVars == <<scraping_in_progress, last_scrape_result, job, sched>>

scraperVars == <<source, max_pages, session, logged_in, step, current_page, on_login,
                 all_bids, list_fetches, probes, ensures, undelivered, bid_idx,
                 detail_fetches, detail_landed, detailed,
                 loginVars, inputVars, outcomeVars, runVars, statVars>>

scrapeVars == <<source, max_pages, session, logged_in, step, current_page, on_login,
                all_bids, list_fetches, probes, ensures, undelivered, bid_idx,
                detail_fetches, detail_landed, detailed,
                loginVars, inputVars, outcomeVars, runVars, statVars, triggerVars>>

----------------------------------------------------------------------------
(* Bounds of the model *)

\* longest line-item list a bid dict carries
MaxItems == 3
\* longest list handed to one save_to_database call
MaxBids == 3
\* longest listing source, in pages; also the largest page cap
MaxPages == 2
MaxFilterIn == 2
MaxRequests == 2
MaxOps == 10

----------------------------------------------------------------------------
(* Values *)

NoVal == "None"
Variants == {"scrapling", "playwright"}
Runs == {1, 2}
Refs == {"r1", "r2"}
Titles == {"t1", "t2"}
ItemNo == <<"1", "2", "3", "4", "5">>

\* A line-item dict as _extract_line_items builds it from the cells of row i.
ScraplingItem(i, lot) ==
    [item_no |-> ItemNo[i], lot_name |-> lot, lot_description |-> "d",
     item_name |-> NoVal, description |-> NoVal]

\* A line-item dict as the playwright scrape_bid_detail builds it: cells[0] is
\* kept as lot_name, cells[2] as item_name, cells[3] as description.
PlaywrightItem(i, lot) ==
    [item_no |-> NoVal, lot_name |-> ItemNo[i], lot_description |-> NoVal,
     item_name |-> lot, description |-> "d"]

ExtractedItem(v, i, lot) ==
    IF v = "scrapling" THEN ScraplingItem(i, lot) ELSE PlaywrightItem(i, lot)

\* The line-item lists a detail page can yield for variant v.
LineItemLists(v) ==
    {[i \in 1..nl[1] |-> ExtractedItem(v, i, nl[2])] :
        nl \in ((0..MaxItems) \X {"a"}) \cup {<<1, "b">>}}

\* The bid dicts handed to persistence (fields the claims below read).
BidDicts(v) ==
    {[reference_number |-> r, title |-> t, line_items |-> li] :
        r \in Refs, t \in Titles \cup {NoVal}, li \in LineItemLists(v)}

\* Python truthiness of bid.get('line_items')
Truthy(li) == Len(li) > 0

----------------------------------------------------------------------------
(* Storage: the two tables, keyed for lookup by reference_number.  A table *)
(* maps each reference number to the rows carrying it, in insertion order. *)

EmptyDb == [opps |-> [r \in Refs |-> <<>>], items |-> [r \in Refs |-> <<>>]]

NoTxn == [active |-> FALSE, opps |-> EmptyDb.opps, items |-> EmptyDb.items]

\* What connection p reads: its own uncommitted transaction if one is open.
View(p) == IF txn[p].active THEN [opps |-> txn[p].opps, items |-> txn[p].items] ELSE db

\* The row INSERT INTO bid_opportunities stores for a bid dict.
OppRow(b) == [reference_number |-> b.reference_number, title |-> b.title]

\* The row INSERT INTO bid_line_items stores for a line-item dict
\* (save_to_database: item_no, lot_name, lot_description from the same keys).
ScraplingItemRow(it) ==
    [item_no |-> it.item_no, lot_name |-> it.lot_name, lot_description |-> it.lot_description]

\* save_line_items: no item_no column is written; lot_description takes
\* item.get('description'); item_name is not stored.
PlaywrightItemRow(it) ==
    [item_no |-> NoVal, lot_name |-> it.lot_name, lot_description |-> it.description]

ItemRow(v, it) == IF v = "scrapling" THEN ScraplingItemRow(it) ELSE PlaywrightItemRow(it)

ItemRows(v, li) == [i \in DOMAIN li |-> ItemRow(v, li[i])]

\* SELECT ... WHERE reference_number = ref  returns a row
RowExists(d, ref) == Len(d.opps[ref]) > 0

\* No key constraint on the table (mutation of InsertAllowed)
InsertUnchecked(d, ref) == TRUE

\* UNIQUE(reference_number): a plain INSERT of an existing key is rejected
InsertAllowed(d, ref) == ~RowExists(d, ref)

\* title TEXT NOT NULL (setup_local_db_v2.py)
TitleAllowed(b) == b.title # NoVal

\* INSERT INTO bid_opportunities
InsertOpp(d, b) ==
    [d EXCEPT !.opps[b.reference_number] = Append(@, OppRow(b))]

\* UPDATE bid_opportunities SET ... WHERE reference_number = ref
UpdateOpp(d, b) ==
    [d EXCEPT !.opps[b.reference_number] = [i \in DOMAIN @ |-> OppRow(b)]]

\* A plain INSERT into a table without the key constraint (mutation of UpsertOpp)
UpsertOppNoConflict(d, b) == InsertOpp(d, b)

\* INSERT ... ON CONFLICT (reference_number) DO UPDATE SET ...
UpsertOpp(d, b) ==
    IF RowExists(d, b.reference_number) THEN UpdateOpp(d, b) ELSE InsertOpp(d, b)

\* The DELETE left out (mutation of DeleteItems)
DeleteItemsNone(d, ref) == d

\* DELETE FROM bid_line_items WHERE reference_number = ref
DeleteItems(d, ref) == [d EXCEPT !.items[ref] = <<>>]

\* INSERT INTO bid_line_items
InsertItem(d, ref, row) == [d EXCEPT !.items[ref] = Append(@, row)]

----------------------------------------------------------------------------
(* Persistence, common parts *)

ZeroCounts == [new |-> 0, updated |-> 0, failed |-> 0, saved |-> 0]

NoPrev == [valid |-> FALSE, bid |-> [reference_number |-> NoVal, title |-> NoVal,
                                     line_items |-> <<>>], res |-> ZeroCounts]

Bid(p) == bids[p][idx[p]]

StoredRefs(d) == {r \in Refs : RowExists(d, r)}

\* The call that just returned persisted exactly one bid, not stored before,
\* and no storage call raised: remembered for the call that follows it.
Remember(p) ==
    IF /\ pc[p] = "ret"
       /\ Len(bids[p]) = 1
       /\ ~call_err[p]
       /\ bids[p][1].reference_number \in fresh[p]
    THEN [valid |-> TRUE, bid |-> bids[p][1], res |-> counts[p]]
    ELSE NoPrev

\* Entry of a persistence call with the list `list`.
\*   scrapling : save_to_database(bids)  -- returns zero counts for an empty list
\*   playwright: the per-bid save loop of run_daily_scrape
BeginCall(p, list) ==
    /\ pc[p] \in {"idle", "ret", "raised"}
    /\ bids' = [bids EXCEPT ![p] = list]
    /\ idx' = [idx EXCEPT ![p] = 1]
    /\ item_idx' = [item_idx EXCEPT ![p] = 1]
    /\ is_new' = [is_new EXCEPT ![p] = FALSE]
    /\ counts' = [counts EXCEPT ![p] = ZeroCounts]
    /\ attempted' = [attempted EXCEPT ![p] = <<>>]
    /\ old_items' = [old_items EXCEPT ![p] = <<>>]
    /\ rec_err' = [rec_err EXCEPT ![p] = FALSE]
    /\ call_err' = [call_err EXCEPT ![p] = FALSE]
    /\ fresh' = [fresh EXCEPT ![p] = Refs \ StoredRefs(db)]
    /\ prev' = [prev EXCEPT ![p] = Remember(p)]
    /\ UNCHANGED <<variant, db, txn, lock>>
    /\ UNCHANGED scrapeVars

----------------------------------------------------------------------------
(* scrapling: PhilGEPSScraper.save_to_database.  asyncpg runs each         *)
(* statement in its own implicit transaction, so a statement is one step   *)
(* on the committed tables and a raising statement changes nothing.        *)

\* The loop left after its first bid (mutation of AfterBid)
AfterBidBreak(p) == "close"

\* The return without the finally clause (mutation of AfterBid)
AfterBidNoClose(p) ==
    IF idx[p] < Len(bids[p]) THEN "select" ELSE "ret"

\* Where the for loop goes after the bid at idx: the next bid, or the
\* return through `finally: await conn.close()`.
AfterBid(p) ==
    IF idx[p] < Len(bids[p]) THEN "select" ELSE "close"

\* except Exception: failed_count += 1; continue
ExceptContinue(p) ==
    /\ counts' = [counts EXCEPT ![p].failed = @ + 1]
    /\ rec_err' = [rec_err EXCEPT ![p] = FALSE]
    /\ call_err' = [call_err EXCEPT ![p] = TRUE]
    /\ pc' = [pc EXCEPT ![p] = AfterBid(p)]
    /\ idx' = [idx EXCEPT ![p] = @ + 1]
    /\ UNCHANGED <<db, conn, is_new, item_idx>>

\* save_to_database entry: `if not bids: return zeros`, else go on to connect
SaveToDatabase(p, list) ==
    /\ variant = "scrapling"
    /\ BeginCall(p, list)
    /\ pc' = [pc EXCEPT ![p] = IF list = <<>> THEN "ret" ELSE "connect"]
    /\ UNCHANGED conn

\* conn = await asyncpg.connect(...): outside the try, a failure propagates
Connect(p) ==
    /\ variant = "scrapling"
    /\ pc[p] = "connect"
    /\ \/ /\ conn' = [conn EXCEPT ![p] = "open"]
          /\ pc' = [pc EXCEPT ![p] = "select"]
          /\ UNCHANGED call_err
       \/ /\ call_err' = [call_err EXCEPT ![p] = TRUE]
          /\ pc' = [pc EXCEPT ![p] = "raised"]
          /\ UNCHANGED conn
    /\ UNCHANGED <<variant, db, txn, lock, bids, idx, item_idx, is_new, counts,
                   attempted, old_items, rec_err, fresh, prev>>
    /\ UNCHANGED scrapeVars

\* existing = await conn.fetchrow('SELECT ...'); is_new = existing is None
SelectExisting(p) ==
    /\ variant = "scrapling"
    /\ pc[p] = "select"
    /\ attempted' = [attempted EXCEPT ![p] = Append(@, Bid(p).reference_number)]
    /\ old_items' = [old_items EXCEPT ![p] = db.items[Bid(p).reference_number]]
    /\ \/ /\ is_new' = [is_new EXCEPT ![p] = ~RowExists(db, Bid(p).reference_number)]
          /\ pc' = [pc EXCEPT ![p] = "upsert"]
          /\ UNCHANGED <<db, conn, counts, rec_err, call_err, idx, item_idx>>
       \/ ExceptContinue(p)
    /\ UNCHANGED <<variant, txn, lock, bids, fresh, prev>>
    /\ UNCHANGED scrapeVars

\* INSERT INTO bid_opportunities ... ON CONFLICT (reference_number) DO UPDATE
Upsert(p) ==
    /\ variant = "scrapling"
    /\ pc[p] = "upsert"
    /\ \/ /\ db' = UpsertOpp(db, Bid(p))
          /\ pc' = [pc EXCEPT ![p] = IF Truthy(Bid(p).line_items) THEN "delete" ELSE "tally"]
          /\ UNCHANGED <<conn, counts, rec_err, call_err, idx, item_idx, is_new>>
       \/ ExceptContinue(p)
    /\ UNCHANGED <<variant, txn, lock, bids, attempted, old_items, fresh, prev>>
    /\ UNCHANGED scrapeVars

\* if bid.get('line_items'): DELETE FROM bid_line_items WHERE reference_number = $1
DeleteLineItems(p) ==
    /\ variant = "scrapling"
    /\ pc[p] = "delete"
    /\ \/ /\ db' = DeleteItems(db, Bid(p).reference_number)
          /\ item_idx' = [item_idx EXCEPT ![p] = 1]
          /\ pc' = [pc EXCEPT ![p] = "insert"]
          /\ UNCHANGED <<conn, counts, rec_err, call_err, idx, is_new>>
       \/ ExceptContinue(p)
    /\ UNCHANGED <<variant, txn, lock, bids, attempted, old_items, fresh, prev>>
    /\ UNCHANGED scrapeVars

\* for item in bid['line_items']: INSERT INTO bid_line_items
InsertLineItem(p) ==
    /\ variant = "scrapling"
    /\ pc[p] = "insert"
    /\ \/ /\ db' = InsertItem(db, Bid(p).reference_number,
                              ItemRow(variant, Bid(p).line_items[item_idx[p]]))
          /\ item_idx' = [item_idx EXCEPT ![p] = @ + 1]
          /\ pc' = [pc EXCEPT ![p] = IF item_idx[p] < Len(Bid(p).line_items)
                                     THEN "insert" ELSE "tally"]
          /\ UNCHANGED <<conn, counts, rec_err, call_err, idx, is_new>>
       \/ ExceptContinue(p)
    /\ UNCHANGED <<variant, txn, lock, bids, attempted, old_items, fresh, prev>>
    /\ UNCHANGED scrapeVars

\* if is_new: new_count += 1  else: updated_count += 1
Tally(p) ==
    /\ variant = "scrapling"
    /\ pc[p] = "tally"
    /\ counts' = [counts EXCEPT ![p] =
                    IF is_new[p] THEN [@ EXCEPT !.new = @ + 1]
                                 ELSE [@ EXCEPT !.updated = @ + 1]]
    /\ pc' = [pc EXCEPT ![p] = AfterBid(p)]
    /\ idx' = [idx EXCEPT ![p] = @ + 1]
    /\ UNCHANGED <<variant, db, txn, lock, conn, bids, item_idx, is_new,
                   attempted, old_items, rec_err, call_err, fresh, prev>>
    /\ UNCHANGED scrapeVars

\* return {...} through finally: await conn.close()
CloseAndReturn(p) ==
    /\ variant = "scrapling"
    /\ pc[p] = "close"
    /\ conn' = [conn EXCEPT ![p] = "closed"]
    /\ pc' = [pc EXCEPT ![p] = "ret"]
    /\ UNCHANGED <<variant, db, txn, lock, bids, idx, item_idx, is_new, counts,
                   attempted, old_items, rec_err, call_err, fresh, prev>>
    /\ UNCHANGED scrapeVars

----------------------------------------------------------------------------
(* playwright: the SQLite connection opened in __init__, and the per-bid   *)
(* save of run_daily_scrape: save_line_items (when the detail carries line *)
(* items) followed by save_bid.  Python's sqlite3 opens a transaction      *)
(* before the first INSERT/UPDATE/DELETE and keeps it until commit(); a    *)
(* statement that raises leaves the transaction open with the earlier      *)
(* statements' changes in it.                                              *)

\* PhilGEPSScraper.__init__: scrapling opens no connection; playwright's
\* _init_database connects, or leaves db_conn = None when connecting raises.
Construct(p) ==
    /\ pc[p] = "new"
    /\ pc' = [pc EXCEPT ![p] = "idle"]
    /\ \/ conn' = [conn EXCEPT ![p] = IF variant = "playwright" THEN "open" ELSE "none"]
       \/ /\ variant = "playwright"
          /\ UNCHANGED conn
    /\ UNCHANGED <<variant, db, txn, lock, bids, idx, item_idx, is_new, counts,
                   attempted, old_items, rec_err, call_err, fresh, prev>>
    /\ UNCHANGED scrapeVars

\* Another connection holds the write lock: the statement raises
\* "database is locked" once the busy timeout expires.
Locked(p) == lock \notin {0, p}

\* A write statement of connection p begins (or continues) p's transaction.
BeginWrite(p) ==
    /\ ~Locked(p)
    /\ lock' = p

\* p's transaction after statement f was applied to what p sees
TxnAfter(p, d) == [active |-> TRUE, opps |-> d.opps, items |-> d.items]

\* self.db_conn.commit()
Commit(p) ==
    /\ db' = View(p)
    /\ txn' = [txn EXCEPT ![p] = NoTxn]
    /\ lock' = IF lock = p THEN 0 ELSE lock

\* Position after the bid at idx has been handled: next bid or end of loop
AfterSave(p) == IF idx[p] < Len(bids[p]) THEN "bid" ELSE "ret"

\* a statement of the playwright variant raised: the error is caught and
\* printed by the method, which returns False
Raised(p) ==
    /\ rec_err' = [rec_err EXCEPT ![p] = TRUE]
    /\ call_err' = [call_err EXCEPT ![p] = TRUE]

\* the storage call raised an error of its own (I/O, disk, connection)
Fault(p) == Raised(p)

\* the save loop of run_daily_scrape entered with the (merged) bids `list`
SaveLoop(p, list) ==
    /\ variant = "playwright"
    /\ BeginCall(p, list)
    /\ pc' = [pc EXCEPT ![p] = IF list = <<>> THEN "ret" ELSE "bid"]
    /\ UNCHANGED conn

\* if detail.get('line_items'): self.save_line_items(...), whose first line
\* returns False without a connection or without items; then self.save_bid(bid)
SaveEntry(p) ==
    /\ variant = "playwright"
    /\ pc[p] = "bid"
    /\ attempted' = [attempted EXCEPT ![p] = Append(@, Bid(p).reference_number)]
    /\ old_items' = [old_items EXCEPT ![p] = db.items[Bid(p).reference_number]]
    /\ rec_err' = [rec_err EXCEPT ![p] = FALSE]
    /\ item_idx' = [item_idx EXCEPT ![p] = 1]
    /\ pc' = [pc EXCEPT ![p] = IF conn[p] = "open" /\ Truthy(Bid(p).line_items)
                               THEN "li_delete" ELSE "sb_exists"]
    /\ UNCHANGED <<variant, db, txn, lock, conn, bids, idx, is_new, counts,
                   call_err, fresh, prev>>
    /\ UNCHANGED scrapeVars

\* save_line_items: DELETE FROM bid_line_items WHERE reference_number = ?
SaveLineItemsDelete(p) ==
    /\ variant = "playwright"
    /\ pc[p] = "li_delete"
    /\ \/ /\ BeginWrite(p)
          /\ txn' = [txn EXCEPT ![p] = TxnAfter(p, DeleteItems(View(p), Bid(p).reference_number))]
          /\ pc' = [pc EXCEPT ![p] = "li_insert"]
          /\ UNCHANGED <<rec_err, call_err>>
       \/ /\ BeginWrite(p)
          /\ Fault(p)
          /\ txn' = [txn EXCEPT ![p] = TxnAfter(p, View(p))]
          /\ pc' = [pc EXCEPT ![p] = "sb_exists"]
       \/ /\ Locked(p)
          /\ Raised(p)
          /\ pc' = [pc EXCEPT ![p] = "sb_exists"]
          /\ UNCHANGED <<txn, lock>>
    /\ UNCHANGED <<variant, db, conn, bids, idx, item_idx, is_new, counts,
                   attempted, old_items, fresh, prev>>
    /\ UNCHANGED scrapeVars

\* save_line_items: for item in line_items: INSERT INTO bid_line_items
\* (the transaction is open and the lock held since the DELETE)
SaveLineItemsInsert(p) ==
    /\ variant = "playwright"
    /\ pc[p] = "li_insert"
    /\ \/ /\ txn' = [txn EXCEPT ![p] =
                        TxnAfter(p, InsertItem(View(p), Bid(p).reference_number,
                                     ItemRow(variant, Bid(p).line_items[item_idx[p]])))]
          /\ item_idx' = [item_idx EXCEPT ![p] = @ + 1]
          /\ pc' = [pc EXCEPT ![p] = IF item_idx[p] < Len(Bid(p).line_items)
                                     THEN "li_insert" ELSE "li_commit"]
          /\ UNCHANGED <<rec_err, call_err>>
       \/ /\ Fault(p)
          /\ pc' = [pc EXCEPT ![p] = "sb_exists"]
          /\ UNCHANGED <<txn, item_idx>>
    /\ UNCHANGED <<variant, db, lock, conn, bids, idx, is_new, counts,
                   attempted, old_items, fresh, prev>>
    /\ UNCHANGED scrapeVars

\* save_line_items: self.db_conn.commit(); return True
SaveLineItemsCommit(p) ==
    /\ variant = "playwright"
    /\ pc[p] = "li_commit"
    /\ pc' = [pc EXCEPT ![p] = "sb_exists"]
    /\ \/ /\ Commit(p)
          /\ UNCHANGED <<rec_err, call_err>>
       \/ /\ Fault(p)
          /\ UNCHANGED <<db, txn, lock>>
    /\ UNCHANGED <<variant, conn, bids, idx, item_idx, is_new, counts,
                   attempted, old_items, fresh, prev>>
    /\ UNCHANGED scrapeVars

\* bid_exists: SELECT 1 FROM bid_opportunities WHERE reference_number = ?
\* (an error is caught inside bid_exists, which then answers False)
BidExists(p) == RowExists(View(p), Bid(p).reference_number)

\* save_bid: `if not self.db_conn: return False`, else exists = self.bid_exists(...)
SaveBidExists(p) ==
    /\ variant = "playwright"
    /\ pc[p] = "sb_exists"
    /\ \/ /\ conn[p] = "open"
          /\ is_new' = [is_new EXCEPT ![p] = ~BidExists(p)]
          /\ pc' = [pc EXCEPT ![p] = "sb_write"]
          /\ UNCHANGED <<rec_err, call_err, idx>>
       \/ /\ conn[p] = "open"
          /\ Fault(p)
          /\ is_new' = [is_new EXCEPT ![p] = TRUE]
          /\ pc' = [pc EXCEPT ![p] = "sb_write"]
          /\ UNCHANGED idx
       \/ /\ conn[p] # "open"
          /\ Raised(p)
          /\ pc' = [pc EXCEPT ![p] = AfterSave(p)]
          /\ idx' = [idx EXCEPT ![p] = @ + 1]
          /\ UNCHANGED <<is_new>>
    /\ UNCHANGED <<variant, db, txn, lock, conn, bids, item_idx, counts,
                   attempted, old_items, fresh, prev>>
    /\ UNCHANGED scrapeVars

\* The statement save_bid executes is accepted by the schema:
\* UPDATE needs a title (NOT NULL); INSERT needs a title and a new key (UNIQUE).
WriteAccepted(p) ==
    /\ TitleAllowed(Bid(p))
    /\ is_new[p] => InsertAllowed(View(p), Bid(p).reference_number)

\* save_bid: UPDATE bid_opportunities ... if exists else INSERT INTO bid_opportunities
SaveBidWrite(p) ==
    /\ variant = "playwright"
    /\ pc[p] = "sb_write"
    /\ \/ /\ BeginWrite(p)
          /\ WriteAccepted(p)
          /\ txn' = [txn EXCEPT ![p] =
                        TxnAfter(p, IF is_new[p] THEN InsertOpp(View(p), Bid(p))
                                                 ELSE UpdateOpp(View(p), Bid(p)))]
          /\ pc' = [pc EXCEPT ![p] = "sb_commit"]
          /\ UNCHANGED <<rec_err, call_err, idx>>
       \/ /\ BeginWrite(p)
          /\ ~WriteAccepted(p)
          /\ Raised(p)
          /\ txn' = [txn EXCEPT ![p] = TxnAfter(p, View(p))]
          /\ pc' = [pc EXCEPT ![p] = AfterSave(p)]
          /\ idx' = [idx EXCEPT ![p] = @ + 1]
       \/ /\ BeginWrite(p)
          /\ Fault(p)
          /\ txn' = [txn EXCEPT ![p] = TxnAfter(p, View(p))]
          /\ pc' = [pc EXCEPT ![p] = AfterSave(p)]
          /\ idx' = [idx EXCEPT ![p] = @ + 1]
       \/ /\ Locked(p)
          /\ Raised(p)
          /\ pc' = [pc EXCEPT ![p] = AfterSave(p)]
          /\ idx' = [idx EXCEPT ![p] = @ + 1]
          /\ UNCHANGED <<txn, lock>>
    /\ UNCHANGED <<variant, db, conn, bids, item_idx, is_new, counts,
                   attempted, old_items, fresh, prev>>
    /\ UNCHANGED scrapeVars

\* save_bid: self.db_conn.commit(); return True
SaveBidCommit(p) ==
    /\ variant = "playwright"
    /\ pc[p] = "sb_commit"
    /\ \/ /\ Commit(p)
          /\ pc' = [pc EXCEPT ![p] = "saved"]
          /\ UNCHANGED <<rec_err, call_err, idx>>
       \/ /\ Fault(p)
          /\ pc' = [pc EXCEPT ![p] = AfterSave(p)]
          /\ idx' = [idx EXCEPT ![p] = @ + 1]
          /\ UNCHANGED <<db, txn, lock>>
    /\ UNCHANGED <<variant, conn, bids, item_idx, is_new, counts,
                   attempted, old_items, fresh, prev>>
    /\ UNCHANGED scrapeVars

\* if self.save_bid(bid): result['saved_count'] += 1
Saved(p) ==
    /\ variant = "playwright"
    /\ pc[p] = "saved"
    /\ counts' = [counts EXCEPT ![p].saved = @ + 1]
    /\ pc' = [pc EXCEPT ![p] = AfterSave(p)]
    /\ idx' = [idx EXCEPT ![p] = @ + 1]
    /\ UNCHANGED <<variant, db, txn, lock, conn, bids, item_idx, is_new,
                   attempted, old_items, rec_err, call_err, fresh, prev>>
    /\ UNCHANGED scrapeVars

----------------------------------------------------------------------------
(* The scrape run: listing index (phase 1) and detail fetches (phase 2)    *)

persistVars == <<db, txn, lock, conn, pc, bids, idx, item_idx, is_new, counts,
                 attempted, old_items, rec_err, call_err, fresh, prev>>

\* The rows of a listing page: the reference number of each row's link, NoVal
\* for a row without one.
RowLists == {<<NoVal, "r2">>, <<"r1", "r2">>}

EmptyPage == [rows |-> <<>>, next |-> FALSE]

\* next: the page offers `.pagination li.next:not(.disabled)`
PageKinds == {EmptyPage} \cup {[rows |-> r, next |-> b] : r \in RowLists, b \in BOOLEAN}

Sources == UNION {[1..n -> PageKinds] : n \in 0..MaxPages}

PageIndexes == 1..(MaxPages + 2)

SourcePage(n) == IF n \in DOMAIN source THEN source[n] ELSE EmptyPage

\* rows = page.css('table.dataTable tbody tr'): a login response has none
Rows == IF on_login THEN <<>> ELSE SourcePage(current_page).rows

\* None where Python has a number or a date
NoNumber == -1

\* What the listing row of a bid notice shows: r2's row has no title
\* element.  Dates are the strings the site prints.
ListingRow(ref) ==
    IF ref = "r1"
    THEN [title |-> "Laptop", classification |-> "Goods", closing_date |-> "d2"]
    ELSE [title |-> NoVal, classification |-> "Works", closing_date |-> "d1"]

\* What the detail page of a bid notice shows: r1's page lacks the
\* 'Classification:' and 'Closing Date:' labels, r2's page has them with
\* values other than the listing's.
DetailPage(ref) ==
    IF ref = "r1"
    THEN [classification |-> NoVal, closing_date |-> NoVal, approved_budget |-> 1]
    ELSE [classification |-> "Goods", closing_date |-> "d3", approved_budget |-> 2]

\* bid = {'reference_number': ..., 'title': ..., ...}; page stands for source_url
SummaryDict(ref, n) ==
    [reference_number |-> ref, page |-> n, title |-> ListingRow(ref).title,
     classification |-> ListingRow(ref).classification,
     closing_date |-> ListingRow(ref).closing_date]

SummaryKeys == {"reference_number", "page", "title", "classification", "closing_date"}

\* detail = {...} of scrape_bid_detail, read off the page given.  scrapling
\* reads classification and closing date again; playwright reads neither.
DetailDict(ref, pg) ==
    IF variant = "scrapling"
    THEN [reference_number |-> ref, classification |-> pg.classification,
          closing_date |-> pg.closing_date, approved_budget |-> pg.approved_budget]
    ELSE [reference_number |-> ref, approved_budget |-> pg.approved_budget]

\* A login page read as a detail page: no label is found on it
LoginPageAsDetail ==
    [classification |-> NoVal, closing_date |-> NoVal, approved_budget |-> NoNumber]

\* {**bid, **detail} and bid.update(detail)
Update(bid, detail) ==
    [k \in DOMAIN bid \cup DOMAIN detail |-> IF k \in DOMAIN detail THEN detail[k] ELSE bid[k]]

\* bid.get(key), with the default of dict.get where one is given
Get(bid, key, default) == IF key \in DOMAIN bid THEN bid[key] ELSE default

\* _parse_date: the day a date string names, None where no format matches
\* it or there is no string
ParseDate(date_str) ==
    IF date_str = "d1" THEN 1
    ELSE IF date_str = "d2" THEN 2
    ELSE IF date_str = "d3" THEN 3
    ELSE NoNumber

\* str.lower() on the strings of the model
Lower(str) ==
    IF str = "Goods" THEN "goods"
    ELSE IF str = "Works" THEN "works"
    ELSE IF str \in {"Laptop", "LAPTOP"} THEN "laptop"
    ELSE str

\* `keyword in title` on lowered strings
Substring(keyword, title) ==
    \/ keyword = title
    \/ keyword = "lap" /\ title = "laptop"

\* The keyword arguments of filter_bids, None or empty where not supplied
NoFilters ==
    [date_from |-> NoVal, date_to |-> NoVal, classifications |-> {},
     budget_min |-> NoNumber, budget_max |-> NoNumber, keywords |-> {}]

\* `if date_from or date_to`
DateActive(f) == f.date_from # NoVal \/ f.date_to # NoVal

\* `if budget_min is not None or budget_max is not None`
BudgetActive(f) == f.budget_min # NoNumber \/ f.budget_max # NoNumber

\* date_filter(bid)
DateFilter(bid, f) ==
    LET closing_date == ParseDate(Get(bid, "closing_date", NoVal))
        date_from_obj == ParseDate(f.date_from)
        date_to_obj == ParseDate(f.date_to)
    IN  /\ closing_date # NoNumber
        /\ ~(date_from_obj # NoNumber /\ closing_date < date_from_obj)
        /\ ~(date_to_obj # NoNumber /\ closing_date > date_to_obj)

\* b.get('classification') and b['classification'].lower() in classifications_lower
ClassificationFilter(bid, f) ==
    /\ Get(bid, "classification", NoVal) # NoVal
    /\ Lower(bid.classification) \in {Lower(c) : c \in f.classifications}

\* budget_filter(bid)
BudgetFilter(bid, f) ==
    LET budget == Get(bid, "approved_budget", NoNumber)
    IN  /\ budget # NoNumber
        /\ ~(f.budget_min # NoNumber /\ budget < f.budget_min)
        /\ ~(f.budget_max # NoNumber /\ budget > f.budget_max)

\* The budget_range label: with budget_min falsy the last f-string formats
\* budget_max, a TypeError when budget_max is None.
BudgetLabelRaises(f) == f.budget_min = 0 /\ f.budget_max = NoNumber

\* keyword_filter(bid); bid.get('title', '') of a title that is None has no lower()
KeywordFilter(bid, f) ==
    \E k \in f.keywords : Substring(Lower(k), Lower(Get(bid, "title", "")))

TitleRaises(bid) == Get(bid, "title", "") = NoVal

\* filter_bids: the four filters in order; what it returns, or that it raised
FilterBids(list, f) ==
    LET dated == IF DateActive(f)
                 THEN SelectSeq(list, LAMBDA b : DateFilter(b, f)) ELSE list
        classed == IF f.classifications # {}
                   THEN SelectSeq(dated, LAMBDA b : ClassificationFilter(b, f)) ELSE dated
        budgeted == IF BudgetActive(f)
                    THEN SelectSeq(classed, LAMBDA b : BudgetFilter(b, f)) ELSE classed
        raised == \/ BudgetActive(f) /\ BudgetLabelRaises(f)
                  \/ f.keywords # {} /\ \E i \in 1..Len(budgeted) : TitleRaises(budgeted[i])
    IN  [raised |-> raised,
         bids |-> IF raised THEN <<>>
                  ELSE IF f.keywords # {}
                       THEN SelectSeq(budgeted, LAMBDA b : KeywordFilter(b, f))
                       ELSE budgeted]

\* The loop left at the first row without a reference number (mutation of
\* RowSummaries)
RECURSIVE RowSummariesBreak(_, _)
RowSummariesBreak(rows, n) ==
    IF rows = <<>> \/ Head(rows) = NoVal THEN <<>>
    ELSE <<SummaryDict(Head(rows), n)>> \o RowSummariesBreak(Tail(rows), n)

\* The for loop over rows: `if not reference_number: continue`, else a
\* summary is appended (its page is kept with it, as in source_url).
RECURSIVE RowSummaries(_, _)
RowSummaries(rows, n) ==
    IF rows = <<>> THEN <<>>
    ELSE (IF Head(rows) = NoVal THEN <<>>
          ELSE <<SummaryDict(Head(rows), n)>>)
         \o RowSummaries(Tail(rows), n)

\* The summaries put in front of those collected (mutation of Collect)
CollectFront(all, new) == new \o all

\* all_bids.append(bid), row after row
Collect(all, new) == all \o new

\* The cap never applied (mutation of CapReached)
CapIgnored == FALSE

\* if max_pages and current_page > max_pages: break
CapReached == max_pages # 0 /\ current_page > max_pages

\* next_button.exists() in scrapling; the playwright loop has no such test
HasNext ==
    IF variant = "scrapling" THEN ~on_login /\ SourcePage(current_page).next ELSE TRUE

\* The rate of a run that has not computed one, and the 0 of the else branch
NoRate == [num |-> 0, den |-> 1]

\* The result run_daily_scrape has before it returns
NoResult == [success |-> FALSE, error |-> "pending"]

\* The exception left to propagate to the caller (mutation of ExceptResult)
ExceptPropagated(msg) == NoResult

\* except Exception as e: return {'success': False, 'error': str(e), ...}
ExceptResult(msg) == [success |-> FALSE, error |-> msg]

\* An exception with message msg leaves the phase it was raised in and
\* reaches the except clause of run_daily_scrape.
Raise(msg) ==
    /\ step' = "failed"
    /\ result' = ExceptResult(msg)
    /\ escaped' = msg
    /\ exc_raised' = TRUE

\* run_daily_scrape entry, on a scraper just constructed or one that ran before
RunDailyScrape ==
    /\ step \in {"idle", "scraped", "failed"}
    /\ step' = "ensure"
    /\ current_page' = 1
    /\ on_login' = FALSE
    /\ all_bids' = <<>>
    /\ list_fetches' = [n \in PageIndexes |-> 0]
    /\ probes' = 0
    /\ ensures' = 0
    /\ undelivered' = FALSE
    /\ bid_idx' = 1
    /\ detail_fetches' = 0
    /\ detail_landed' = FALSE
    /\ detailed' = <<>>
    /\ UNCHANGED <<source, max_pages, session, logged_in, variant>>
    /\ auto_attempts' = 0
    /\ auto_failed' = 0
    /\ manual_attempts' = 0
    /\ ensure_ret' = "none"
    /\ UNCHANGED cookies
    /\ result' = NoResult
    /\ escaped' = ""
    /\ exc_raised' = FALSE
    /\ bid_list' = <<>>
    /\ detailed_bids' = <<>>
    /\ handed' = <<>>
    /\ writes' = 0
    /\ errors' = 0
    /\ delayed' = FALSE
    /\ extraction_errors' = 0
    /\ total_operations' = 0
    /\ total_errors' = 0
    /\ success_rate' = NoRate
    /\ UNCHANGED inputVars
    /\ UNCHANGED triggerVars
    /\ UNCHANGED persistVars

\* The site ends the session
Expire ==
    /\ session
    /\ step \notin {"idle", "scraped", "failed"}
    /\ session' = FALSE
    /\ UNCHANGED <<source, max_pages, logged_in, step, current_page, on_login, all_bids,
                   list_fetches, probes, ensures, undelivered, bid_idx, detail_fetches,
                   detail_landed, detailed, variant>>
    /\ UNCHANGED <<loginVars, inputVars, outcomeVars, runVars>>
    /\ UNCHANGED <<statVars, triggerVars>>
    /\ UNCHANGED persistVars

\* The test skipped (mutation of AlreadyLoggedIn)
NeverLoggedIn == FALSE

\* self.cookies = page.cookies: a cookie jar other than the one held (0 is
\* the None of the constructor)
NewCookies(held) == IF held = 1 THEN 2 ELSE 1

\* if self.logged_in: return True
AlreadyLoggedIn == logged_in

\* login_manual past its fetch of the login page: the flag (and, in
\* scrapling, the cookies) set whatever the user did in the browser
ManualLogin ==
    /\ logged_in' = TRUE
    /\ session' \in BOOLEAN
    /\ cookies' = IF variant = "scrapling" THEN NewCookies(cookies) ELSE cookies
    /\ ensure_ret' = "true"

\* ensure_logged_in, then on to `then`.
\*   scrapling : returns at once when logged_in; else login_automated, and
\*               login_manual when that returns False; a raising fetch of
\*               the login page, in either, propagates to run_daily_scrape.
\*   playwright: returns at once when logged_in; else loads the page-1
\*               listing URL: not on the login path -> logged_in; on it ->
\*               login_manual; an exception -> returns False.
EnsureLoggedIn(then) ==
    /\ ensures' = ensures + 1
    /\ \/ /\ AlreadyLoggedIn
          /\ step' = then
          /\ ensure_ret' = "true"
          /\ auto_attempts' = 0 /\ auto_failed' = 0 /\ manual_attempts' = 0
          /\ UNCHANGED <<logged_in, session, probes, cookies, outcomeVars>>
       \/ /\ ~AlreadyLoggedIn
          /\ variant = "scrapling"
          /\ auto_attempts' = 1
          /\ \/ /\ logged_in' = TRUE
                /\ session' \in BOOLEAN
                /\ cookies' = NewCookies(cookies)
                /\ ensure_ret' = "true"
                /\ step' = then
                /\ auto_failed' = 0 /\ manual_attempts' = 0
                /\ UNCHANGED outcomeVars
             \/ /\ auto_failed' = 1
                /\ manual_attempts' = 1
                /\ \/ /\ ManualLogin
                      /\ step' = then
                      /\ UNCHANGED outcomeVars
                   \/ /\ Raise("login page fetch failed")
                      /\ ensure_ret' = "raised"
                      /\ UNCHANGED <<logged_in, session, cookies>>
             \/ /\ auto_failed' = 1
                /\ manual_attempts' = 0
                /\ Raise("login page fetch failed")
                /\ ensure_ret' = "raised"
                /\ UNCHANGED <<logged_in, session, cookies>>
          /\ UNCHANGED probes
       \/ /\ ~AlreadyLoggedIn
          /\ variant = "playwright"
          /\ probes' = probes + 1
          /\ step' = then
          /\ \/ /\ session
                /\ logged_in' = TRUE
                /\ ensure_ret' = "true"
                /\ manual_attempts' = 0
                /\ UNCHANGED <<session, cookies>>
             \/ /\ ~session
                /\ manual_attempts' = 1
                /\ ManualLogin
             \/ /\ ensure_ret' = "false"
                /\ manual_attempts' \in {0, 1}
                /\ UNCHANGED <<logged_in, session, cookies>>
          /\ auto_attempts' = 0 /\ auto_failed' = 0
          /\ UNCHANGED outcomeVars

\* scrape_current_opportunities_list: await self.ensure_logged_in()
EnsureFirst ==
    /\ step = "ensure"
    /\ EnsureLoggedIn("cap")
    /\ UNCHANGED <<source, max_pages, current_page, on_login, all_bids, list_fetches,
                   undelivered, bid_idx, detail_fetches, detail_landed, detailed, variant>>
    /\ UNCHANGED <<inputVars, runVars>>
    /\ UNCHANGED <<statVars, triggerVars>>
    /\ UNCHANGED persistVars

\* while True: the cap test
CheckCap ==
    /\ step = "cap"
    /\ step' = IF CapReached THEN "listed" ELSE "fetch"
    /\ UNCHANGED <<source, max_pages, session, logged_in, current_page, on_login, all_bids,
                   list_fetches, probes, ensures, undelivered, bid_idx, detail_fetches,
                   detail_landed, detailed, variant>>
    /\ UNCHANGED <<loginVars, inputVars, outcomeVars, runVars>>
    /\ UNCHANGED <<statVars, triggerVars>>
    /\ UNCHANGED persistVars

\* The flag left as it was (mutation of FlagOnExpiry)
FlagKept == logged_in

\* if 'login' in page.url.lower(): self.logged_in = False
FlagOnExpiry == FALSE

\* A fetch of the listing that never returns (mutation of FetchPage)
FetchPageHangs ==
    /\ step = "fetch"
    /\ UNCHANGED <<source, max_pages, session, logged_in, step, current_page, on_login,
                   all_bids, list_fetches, probes, ensures, undelivered, bid_idx,
                   detail_fetches, detail_landed, detailed, variant>>
    /\ UNCHANGED <<loginVars, inputVars, outcomeVars, runVars>>
    /\ UNCHANGED <<statVars, triggerVars>>
    /\ UNCHANGED persistVars

\* The fetch of the page at current_page and the test of its URL: on the
\* login path the flag is cleared; a raising fetch propagates.
FetchPage ==
    /\ step = "fetch"
    /\ list_fetches' = [list_fetches EXCEPT ![current_page] = @ + 1]
    /\ \/ /\ on_login' = ~session
          /\ logged_in' = IF session THEN logged_in ELSE FlagOnExpiry
          /\ step' = IF session THEN "extract" ELSE "relogin"
          /\ UNCHANGED outcomeVars
       \/ /\ Raise("listing fetch failed")
          /\ UNCHANGED <<on_login, logged_in>>
    /\ UNCHANGED <<source, max_pages, session, current_page, all_bids, probes, ensures,
                   undelivered, bid_idx, detail_fetches, detail_landed, detailed, variant>>
    /\ UNCHANGED <<loginVars, inputVars, runVars>>
    /\ UNCHANGED <<statVars, triggerVars>>
    /\ UNCHANGED persistVars

\* Session expired: await self.ensure_logged_in()
Relogin ==
    /\ step = "relogin"
    /\ EnsureLoggedIn("retry")
    /\ UNCHANGED <<source, max_pages, current_page, on_login, all_bids, list_fetches,
                   undelivered, bid_idx, detail_fetches, detail_landed, detailed, variant>>
    /\ UNCHANGED <<inputVars, runVars>>
    /\ UNCHANGED <<statVars, triggerVars>>
    /\ UNCHANGED persistVars

\* The same URL fetched again; this response's URL is not tested
RetryPage ==
    /\ step = "retry"
    /\ list_fetches' = [list_fetches EXCEPT ![current_page] = @ + 1]
    /\ \/ /\ on_login' = ~session
          /\ undelivered' = (undelivered \/ ~session)
          /\ step' = "extract"
          /\ UNCHANGED outcomeVars
       \/ /\ Raise("listing fetch failed")
          /\ UNCHANGED <<on_login, undelivered>>
    /\ UNCHANGED <<source, max_pages, session, logged_in, current_page, all_bids, probes,
                   ensures, bid_idx, detail_fetches, detail_landed, detailed, variant>>
    /\ UNCHANGED <<loginVars, inputVars, runVars>>
    /\ UNCHANGED <<statVars, triggerVars>>
    /\ UNCHANGED persistVars

\* self._record_error('ExtractionError', ...) of scrapling's page-level
\* except; playwright only prints
ExtractionErrors == IF variant = "scrapling" THEN 1 ELSE 0

\* The rows of the response held: none -> break; else every row with a
\* reference number is appended; an exception while extracting -> break
ExtractRows ==
    /\ step = "extract"
    /\ \/ /\ Rows = <<>>
          /\ step' = "listed"
          /\ UNCHANGED <<all_bids, undelivered, extraction_errors>>
       \/ /\ Rows # <<>>
          /\ all_bids' = Collect(all_bids, RowSummaries(Rows, current_page))
          /\ step' = "next"
          /\ UNCHANGED <<undelivered, extraction_errors>>
       \/ /\ step' = "listed"
          /\ undelivered' = TRUE
          /\ extraction_errors' = extraction_errors + ExtractionErrors
          /\ UNCHANGED all_bids
    /\ exc_raised' = (exc_raised \/ undelivered')
    /\ UNCHANGED <<source, max_pages, session, logged_in, current_page, on_login,
                   list_fetches, probes, ensures, bid_idx, detail_fetches, detail_landed,
                   detailed, variant>>
    /\ UNCHANGED <<loginVars, inputVars, result, escaped, runVars>>
    /\ UNCHANGED <<delayed, total_operations, total_errors, success_rate, triggerVars>>
    /\ UNCHANGED persistVars

\* scrapling: no enabled next button -> break; then current_page += 1
NextPage ==
    /\ step = "next"
    /\ step' = IF HasNext THEN "cap" ELSE "listed"
    /\ current_page' = IF HasNext THEN current_page + 1 ELSE current_page
    /\ UNCHANGED <<source, max_pages, session, logged_in, on_login, all_bids, list_fetches,
                   probes, ensures, undelivered, bid_idx, detail_fetches, detail_landed,
                   detailed, variant>>
    /\ UNCHANGED <<loginVars, inputVars, outcomeVars, runVars>>
    /\ UNCHANGED <<statVars, triggerVars>>
    /\ UNCHANGED persistVars

\* 'No bids found' of scrapling, 'No bids found in list' of playwright
NoBidsError == IF variant = "scrapling" THEN "No bids found" ELSE "No bids found in list"

\* The result dict of a run that went through; filtered_out and the
\* statistics are not kept
SuccessResult == [success |-> TRUE, error |-> ""]

\* `if not bid_list` as the code has it, and without the test
EmptyListKept(list) == FALSE
EmptyList(list) == list = <<>>

\* `if filters:` of playwright; scrapling applies no filter
FiltersApplied == variant = "playwright" /\ filters # NoFilters

\* `if fetch_details:` ... `else:`
AfterFilter == IF fetch_details THEN "detail" ELSE "save"

\* Phase 1 is over: bid_list = await self.scrape_bid_list(max_pages);
\* `if not bid_list: return {'success': False, 'error': ...}`
ListReturned ==
    /\ step = "listed"
    /\ IF EmptyList(all_bids)
       THEN /\ step' = "failed"
            /\ result' = [success |-> FALSE, error |-> NoBidsError]
            /\ UNCHANGED bid_list
       ELSE /\ step' = IF FiltersApplied THEN "filter" ELSE AfterFilter
            /\ bid_list' = all_bids
            /\ UNCHANGED result
    /\ UNCHANGED <<source, max_pages, session, logged_in, current_page, on_login, all_bids,
                   list_fetches, probes, ensures, undelivered, bid_idx, detail_fetches,
                   detail_landed, detailed, variant>>
    /\ UNCHANGED <<loginVars, inputVars, escaped, exc_raised, detailed_bids, handed,
                   writes, errors>>
    /\ UNCHANGED <<statVars, triggerVars>>
    /\ UNCHANGED persistVars

\* playwright: bid_list = self.filter_bids(bid_list, **filters), ahead of the
\* detail loop; `if not bid_list: return {'success': True, 'total_bids': 0, ...}`
ApplyFilters ==
    /\ step = "filter"
    /\ LET r == FilterBids(bid_list, filters)
       IN  IF r.raised
           THEN Raise("filter_bids raised") /\ UNCHANGED bid_list
           ELSE /\ bid_list' = r.bids
                /\ step' = IF r.bids = <<>> THEN "scraped" ELSE AfterFilter
                /\ result' = IF r.bids = <<>> THEN SuccessResult ELSE result
                /\ UNCHANGED <<escaped, exc_raised>>
    /\ UNCHANGED <<source, max_pages, session, logged_in, current_page, on_login, all_bids,
                   list_fetches, probes, ensures, undelivered, bid_idx, detail_fetches,
                   detail_landed, detailed, variant>>
    /\ UNCHANGED <<loginVars, inputVars, detailed_bids, handed, writes, errors>>
    /\ UNCHANGED <<statVars, triggerVars>>
    /\ UNCHANGED persistVars

\* What scrape_bid_detail returns for a response on the login path:
\* scrapling tests the URL and returns None; playwright does not test it and
\* returns the dict it reads off the login page.
LoginDetail == IF variant = "scrapling" THEN "none" ELSE "blank"

\* scrape_bid_detail: one fetch of detail_url; an exception -> None
DetailFetch ==
    /\ step = "detail"
    /\ step' = "merge"
    /\ detail_fetches' = detail_fetches + 1
    /\ \/ /\ detail_landed' = ~session
          /\ detailed' = Append(detailed, IF session THEN "full" ELSE LoginDetail)
          /\ UNCHANGED exc_raised
       \/ /\ detailed' = Append(detailed, "none")
          /\ exc_raised' = TRUE
          /\ UNCHANGED detail_landed
    /\ UNCHANGED <<source, max_pages, session, logged_in, current_page, on_login, all_bids,
                   list_fetches, probes, ensures, undelivered, bid_idx, variant>>
    /\ delayed' = FALSE
    /\ UNCHANGED <<loginVars, inputVars, result, escaped, runVars>>
    /\ UNCHANGED <<extraction_errors, total_operations, total_errors, success_rate, triggerVars>>
    /\ UNCHANGED persistVars

\* The record of a bid after its detail fetch: merged = {**bid, **detail}
\* (bid.update(detail) in playwright) when detail is truthy, else the bid
\* A failed fetch merged like an empty detail (mutation of Merged)
MergedEmptyDetail(bid, kind) ==
    Update(bid, DetailDict(bid.reference_number, LoginPageAsDetail))

Merged(bid, kind) ==
    IF kind = "none" THEN bid
    ELSE IF kind = "blank" THEN Update(bid, DetailDict(bid.reference_number, LoginPageAsDetail))
    ELSE Update(bid, DetailDict(bid.reference_number, DetailPage(bid.reference_number)))

\* self._record_error('DetailFetchError', ...) of scrapling's else branch;
\* playwright only prints
DetailErrors(kind) == IF variant = "scrapling" /\ kind = "none" THEN 1 ELSE 0

\* await asyncio.sleep(1) closes each iteration of the playwright detail
\* loop; the scrapling loop has no delay
RateLimited == variant = "playwright"

\* The detail merged into the bid (or the list data kept); on to the next
\* bid.  scrapling appends to detailed_bids; playwright saves the bid at once
\* (self.save_bid(bid)), sleeps, and returns its result after the last one.
MergeDetail ==
    /\ step = "merge"
    /\ LET kind == detailed[Len(detailed)]
           merged == Merged(bid_list[bid_idx], kind)
           last == bid_idx >= Len(bid_list)
       IN  /\ detailed_bids' = Append(detailed_bids, merged)
           /\ errors' = errors + DetailErrors(kind)
           /\ IF variant = "scrapling"
              THEN /\ step' = IF last THEN "save" ELSE "detail"
                   /\ UNCHANGED <<handed, writes, result>>
              ELSE /\ step' = IF last THEN "scraped" ELSE "detail"
                   /\ handed' = Append(handed, merged)
                   /\ writes' = writes + 1
                   /\ result' = IF last THEN SuccessResult ELSE result
    /\ bid_idx' = bid_idx + 1
    /\ detail_fetches' = 0
    /\ detail_landed' = FALSE
    /\ UNCHANGED <<source, max_pages, session, logged_in, current_page, on_login, all_bids,
                   list_fetches, probes, ensures, undelivered, detailed, variant>>
    /\ delayed' = RateLimited
    /\ UNCHANGED <<loginVars, inputVars, escaped, exc_raised, bid_list>>
    /\ UNCHANGED <<extraction_errors, total_operations, total_errors, success_rate, triggerVars>>
    /\ UNCHANGED persistVars

\* The list of phase 2 whatever fetch_details says (mutation of ToSave)
ToSaveDetailed == detailed_bids

\* The list handed to persistence: detailed_bids, or bid_list without details
ToSave == IF fetch_details THEN detailed_bids ELSE bid_list

\* gcd of two naturals, not both 0
RECURSIVE Gcd(_, _)
Gcd(a, b) == IF b = 0 THEN a ELSE Gcd(b, a % b)

\* a fraction num/den, den > 0, in lowest terms
Fraction(num, den) ==
    LET g == Gcd(IF num < 0 THEN -num ELSE num, den)
    IN  [num |-> num \div g, den |-> den \div g]

\* x * k for a fraction x
Times(x, k) == Fraction(x.num * k, x.den)

\* The errors over the operations (mutation of SuccessRate)
ErrorRate(operations, errors_sum) ==
    IF operations > 0
    THEN Times(Fraction(errors_sum, operations), 100)
    ELSE NoRate

\* success_rate = ((total_operations - total_errors) / total_operations * 100)
\*                if total_operations > 0 else 0
SuccessRate(operations, errors_sum) ==
    IF operations > 0
    THEN Times(Fraction(operations - errors_sum, operations), 100)
    ELSE NoRate

\* Phase 3.  scrapling: save_result = await self.save_to_database(detailed_bids),
\* whose connect may raise out of it and which records a DatabaseError for
\* each bid it failed to save; total_errors = sum(self.stats['errors'].values()).
\* playwright without details: `for bid in bid_list: self.save_bid(bid)`.
SaveAll ==
    /\ step = "save"
    /\ handed' = ToSave
    /\ \/ /\ variant = "playwright"
          /\ writes' = writes + Len(ToSave)
          /\ result' = SuccessResult
          /\ step' = "scraped"
          /\ UNCHANGED <<escaped, exc_raised, total_operations, total_errors>>
       \/ /\ variant = "scrapling"
          /\ writes' = writes + Len(ToSave)
          /\ \E failed \in 0..Len(ToSave) :
                total_errors' = extraction_errors + errors + failed
          /\ total_operations' = Len(bid_list)
          /\ step' = "rate"
          /\ UNCHANGED <<result, escaped, exc_raised>>
       \/ /\ variant = "scrapling"
          /\ Raise("database connection failed")
          /\ UNCHANGED <<writes, total_operations, total_errors>>
    /\ UNCHANGED <<source, max_pages, session, logged_in, current_page, on_login, all_bids,
                   list_fetches, probes, ensures, undelivered, bid_idx, detail_fetches,
                   detail_landed, detailed, variant>>
    /\ UNCHANGED <<loginVars, inputVars, bid_list, detailed_bids, errors>>
    /\ UNCHANGED <<delayed, extraction_errors, success_rate, triggerVars>>
    /\ UNCHANGED persistVars

\* scrapling: total_operations = len(bid_list); success_rate = ...; the
\* result dict with 'success': True is returned
CalculateSuccessRate ==
    /\ step = "rate"
    /\ success_rate' = SuccessRate(total_operations, total_errors)
    /\ result' = SuccessResult
    /\ step' = "scraped"
    /\ UNCHANGED <<source, max_pages, session, logged_in, current_page, on_login, all_bids,
                   list_fetches, probes, ensures, undelivered, bid_idx, detail_fetches,
                   detail_landed, detailed, variant>>
    /\ UNCHANGED <<loginVars, inputVars, escaped, exc_raised, runVars>>
    /\ UNCHANGED <<delayed, extraction_errors, total_operations, total_errors, triggerVars>>
    /\ UNCHANGED persistVars

----------------------------------------------------------------------------
(* Specifications *)

vars == <<variant, persistVars, scrapeVars>>

\* The scraper as constructed: self.logged_in = False, nothing fetched
\* The /scrape/trigger requests of a behaviour
Requests == 1..MaxRequests

\* last_scrape_result: Optional[Dict] = None
NoLastResult == [job |-> 0, success |-> FALSE, error |-> "None"]

\* run_daily_scrape(max_pages, fetch_details=True, filters=None)
DefaultInputs == fetch_details = TRUE /\ filters = NoFilters

Constructed ==
    /\ logged_in = FALSE
    /\ step = "idle"
    /\ current_page = 1
    /\ on_login = FALSE
    /\ all_bids = <<>>
    /\ list_fetches = [n \in PageIndexes |-> 0]
    /\ probes = 0
    /\ ensures = 0
    /\ undelivered = FALSE
    /\ bid_idx = 1
    /\ detail_fetches = 0
    /\ detail_landed = FALSE
    /\ detailed = <<>>
    /\ auto_attempts = 0
    /\ auto_failed = 0
    /\ manual_attempts = 0
    /\ ensure_ret = "none"
    /\ cookies = 0
    /\ result = NoResult
    /\ escaped = ""
    /\ exc_raised = FALSE
    /\ bid_list = <<>>
    /\ detailed_bids = <<>>
    /\ handed = <<>>
    /\ writes = 0
    /\ errors = 0
    /\ delayed = FALSE
    /\ extraction_errors = 0
    /\ total_operations = 0
    /\ total_errors = 0
    /\ success_rate = NoRate

\* api.py as imported: no request made, no job, the globals as initialised
NoTrigger ==
    /\ scraping_in_progress = FALSE
    /\ last_scrape_result = NoLastResult
    /\ job = [j \in Requests |-> "none"]
    /\ sched = "idle"

InitPersist ==
    /\ variant \in Variants
    /\ db = EmptyDb
    /\ txn = [p \in Runs |-> NoTxn]
    /\ lock = 0
    /\ conn = [p \in Runs |-> "none"]
    /\ pc = [p \in Runs |-> "new"]
    /\ bids = [p \in Runs |-> <<>>]
    /\ idx = [p \in Runs |-> 1]
    /\ item_idx = [p \in Runs |-> 1]
    /\ is_new = [p \in Runs |-> FALSE]
    /\ counts = [p \in Runs |-> ZeroCounts]
    /\ attempted = [p \in Runs |-> <<>>]
    /\ old_items = [p \in Runs |-> <<>>]
    /\ rec_err = [p \in Runs |-> FALSE]
    /\ call_err = [p \in Runs |-> FALSE]
    /\ fresh = [p \in Runs |-> {}]
    /\ prev = [p \in Runs |-> NoPrev]
    /\ Constructed
    /\ NoTrigger
    /\ DefaultInputs
    /\ source = <<>>
    /\ max_pages = 0
    /\ session = FALSE

\* one statement of the persistence code of run p
PersistStep(p) ==
    \/ Construct(p)
    \/ Connect(p)
    \/ SelectExisting(p)
    \/ Upsert(p)
    \/ DeleteLineItems(p)
    \/ InsertLineItem(p)
    \/ Tally(p)
    \/ CloseAndReturn(p)
    \/ SaveEntry(p)
    \/ SaveLineItemsDelete(p)
    \/ SaveLineItemsInsert(p)
    \/ SaveLineItemsCommit(p)
    \/ SaveBidExists(p)
    \/ SaveBidWrite(p)
    \/ SaveBidCommit(p)
    \/ Saved(p)

\* The bid dicts of one bid notice, scrape after scrape.
BidVersions(v) == {b \in BidDicts(v) : b.reference_number = "r1"}

\* One scraper persisting one bid dict per call, call after call.
NextPersist ==
    \/ PersistStep(1)
    \/ \E b \in BidVersions(variant) : SaveToDatabase(1, <<b>>)
    \/ \E b \in BidVersions(variant) : SaveLoop(1, <<b>>)

SpecPersist == InitPersist /\ [][NextPersist]_vars

----------------------------------------------------------------------------
(* save_to_database over lists of bids (scrapling) *)

\* The bid dicts a list handed to save_to_database is made of.
ListBids ==
    {b \in BidDicts("scrapling") :
        /\ b.title = "t1"
        /\ b.line_items = (IF b.reference_number = "r1" THEN <<>>
                            ELSE <<ExtractedItem("scrapling", 1, "a")>>)}

RECURSIVE ListsUpTo(_, _)
ListsUpTo(S, n) ==
    IF n = 0 THEN {<<>>}
    ELSE LET shorter == ListsUpTo(S, n - 1)
         IN shorter \cup {Append(l, b) : l \in {k \in shorter : Len(k) = n - 1}, b \in S}

BidLists == ListsUpTo(ListBids, MaxBids)

InitSave == InitPersist /\ variant = "scrapling"

NextSave ==
    \/ Construct(1)
    \/ \E list \in BidLists : SaveToDatabase(1, list)
    \/ Connect(1)
    \/ SelectExisting(1)
    \/ Upsert(1)
    \/ DeleteLineItems(1)
    \/ InsertLineItem(1)
    \/ Tally(1)
    \/ CloseAndReturn(1)

SpecSave == InitSave /\ [][NextSave]_vars

----------------------------------------------------------------------------
(* Two scrape runs persisting the same bid notice at the same time *)

ConcBids ==
    {b \in BidDicts(variant) :
        /\ b.reference_number = "r1"
        /\ b.title = "t1"
        /\ b.line_items \in {<<>>, <<ExtractedItem(variant, 1, "a")>>}}

NextConc ==
    \E p \in Runs :
        \/ PersistStep(p)
        \/ \E b \in ConcBids : SaveToDatabase(p, <<b>>)
        \/ \E b \in ConcBids : SaveLoop(p, <<b>>)

SpecConc == InitPersist /\ [][NextConc]_vars

----------------------------------------------------------------------------
(* One scraper running run_daily_scrape against a listing source *)

InitScrape ==
    /\ variant \in Variants
    /\ db = EmptyDb
    /\ txn = [p \in Runs |-> NoTxn]
    /\ lock = 0
    /\ conn = [p \in Runs |-> "none"]
    /\ pc = [p \in Runs |-> "idle"]
    /\ bids = [p \in Runs |-> <<>>]
    /\ idx = [p \in Runs |-> 1]
    /\ item_idx = [p \in Runs |-> 1]
    /\ is_new = [p \in Runs |-> FALSE]
    /\ counts = [p \in Runs |-> ZeroCounts]
    /\ attempted = [p \in Runs |-> <<>>]
    /\ old_items = [p \in Runs |-> <<>>]
    /\ rec_err = [p \in Runs |-> FALSE]
    /\ call_err = [p \in Runs |-> FALSE]
    /\ fresh = [p \in Runs |-> {}]
    /\ prev = [p \in Runs |-> NoPrev]
    /\ Constructed
    /\ NoTrigger
    /\ DefaultInputs
    /\ source \in Sources
    /\ max_pages \in 0..MaxPages
    /\ session \in BOOLEAN

NextScrape ==
    \/ RunDailyScrape
    \/ Expire
    \/ EnsureFirst
    \/ CheckCap
    \/ FetchPage
    \/ Relogin
    \/ RetryPage
    \/ ExtractRows
    \/ NextPage
    \/ ListReturned
    \/ DetailFetch
    \/ MergeDetail
    \/ SaveAll
    \/ CalculateSuccessRate

SpecScrape == InitScrape /\ [][NextScrape]_vars

\* run_scraper_playwright.py: `if (args.budget_min or args.budget_max) and
\* args.no_details: ... sys.exit(1)`; a budget of 0 is falsy
CliRejects ==
    /\ \/ filters.budget_min \notin {NoNumber, 0}
       \/ filters.budget_max \notin {NoNumber, 0}
    /\ ~fetch_details

\* The command line of the playwright variant: the check of the budget
\* filters, then run_daily_scrape with the arguments given.  The rejection
\* is printed and the process exits with status 1.
RunFromCli ==
    /\ variant = "playwright"
    /\ IF CliRejects
       THEN /\ step \in {"idle", "scraped", "failed"}
            /\ step' = "failed"
            /\ result' = [success |-> FALSE, error |-> "Budget filters require fetching details"]
            /\ UNCHANGED <<source, max_pages, session, logged_in, current_page, on_login,
                           all_bids, list_fetches, probes, ensures, undelivered, bid_idx,
                           detail_fetches, detail_landed, detailed, variant>>
            /\ UNCHANGED <<loginVars, inputVars, escaped, exc_raised, runVars>>
            /\ UNCHANGED <<statVars, triggerVars>>
            /\ UNCHANGED persistVars
       ELSE RunDailyScrape

\* The sites of the runs with filters: at most one listing page
RunSources == {s \in Sources : Len(s) <= 1}

\* filters of the runs: none, a budget floor, a budget floor of 0, a
\* classification set
RunFilters ==
    {NoFilters,
     [NoFilters EXCEPT !.budget_min = 1],
     [NoFilters EXCEPT !.budget_min = 0, !.budget_max = 2],
     [NoFilters EXCEPT !.classifications = {"Goods"}]}

\* As InitScrape, with the arguments of run_daily_scrape free
InitRun ==
    /\ variant \in Variants
    /\ db = EmptyDb
    /\ txn = [p \in Runs |-> NoTxn]
    /\ lock = 0
    /\ conn = [p \in Runs |-> "none"]
    /\ pc = [p \in Runs |-> "idle"]
    /\ bids = [p \in Runs |-> <<>>]
    /\ idx = [p \in Runs |-> 1]
    /\ item_idx = [p \in Runs |-> 1]
    /\ is_new = [p \in Runs |-> FALSE]
    /\ counts = [p \in Runs |-> ZeroCounts]
    /\ attempted = [p \in Runs |-> <<>>]
    /\ old_items = [p \in Runs |-> <<>>]
    /\ rec_err = [p \in Runs |-> FALSE]
    /\ call_err = [p \in Runs |-> FALSE]
    /\ fresh = [p \in Runs |-> {}]
    /\ prev = [p \in Runs |-> NoPrev]
    /\ Constructed
    /\ NoTrigger
    /\ source \in RunSources
    /\ max_pages \in 0..MaxPages
    /\ session \in BOOLEAN
    /\ fetch_details \in BOOLEAN
    /\ filters \in RunFilters

NextRun ==
    \/ NextScrape
    \/ RunFromCli
    \/ ApplyFilters

SpecRun == InitRun /\ [][NextRun]_vars

\* The bid dicts filter_bids is given: the summaries of the listing, and
\* records with a budget, each field there or None
FilterDicts ==
    {SummaryDict(r, 1) : r \in {"r1", "r2"}} \cup
    {[reference_number |-> "r1", page |-> 1, title |-> t, classification |-> c,
      closing_date |-> d, approved_budget |-> a] :
        t \in {"Laptop", NoVal}, c \in {"Goods", NoVal}, d \in {"d2", NoVal},
        a \in {1, NoNumber}}

FilterLists == UNION {[1..n -> FilterDicts] : n \in 0..MaxFilterIn}

\* The keyword arguments filter_bids is called with
FilterArgs ==
    {[date_from |-> dates[1], date_to |-> dates[2], classifications |-> c,
      budget_min |-> budget[1], budget_max |-> budget[2], keywords |-> k] :
        dates \in {<<NoVal, NoVal>>, <<"d2", NoVal>>, <<NoVal, "d1">>, <<"d1", "d3">>},
        c \in {{}, {"goods"}, {"Works"}},
        budget \in {<<NoNumber, NoNumber>>, <<0, NoNumber>>, <<1, NoNumber>>,
                    <<NoNumber, 0>>, <<1, 2>>},
        k \in {{}, {"lap"}, {"LAPTOP", "road"}}}

\* filter_bids about to be called by the playwright run on any list of bid
\* dicts with any arguments
InitFilter ==
    /\ variant = "playwright"
    /\ db = EmptyDb
    /\ txn = [p \in Runs |-> NoTxn]
    /\ lock = 0
    /\ conn = [p \in Runs |-> "none"]
    /\ pc = [p \in Runs |-> "idle"]
    /\ bids = [p \in Runs |-> <<>>]
    /\ idx = [p \in Runs |-> 1]
    /\ item_idx = [p \in Runs |-> 1]
    /\ is_new = [p \in Runs |-> FALSE]
    /\ counts = [p \in Runs |-> ZeroCounts]
    /\ attempted = [p \in Runs |-> <<>>]
    /\ old_items = [p \in Runs |-> <<>>]
    /\ rec_err = [p \in Runs |-> FALSE]
    /\ call_err = [p \in Runs |-> FALSE]
    /\ fresh = [p \in Runs |-> {}]
    /\ prev = [p \in Runs |-> NoPrev]
    /\ source = <<>>
    /\ max_pages = 0
    /\ session = TRUE
    /\ logged_in = TRUE
    /\ step = "filter"
    /\ current_page = 1
    /\ on_login = FALSE
    /\ all_bids = <<>>
    /\ list_fetches = [n \in PageIndexes |-> 0]
    /\ probes = 0
    /\ ensures = 0
    /\ undelivered = FALSE
    /\ bid_idx = 1
    /\ detail_fetches = 0
    /\ detail_landed = FALSE
    /\ detailed = <<>>
    /\ auto_attempts = 0
    /\ auto_failed = 0
    /\ manual_attempts = 0
    /\ ensure_ret = "none"
    /\ cookies = 0
    /\ result = NoResult
    /\ escaped = ""
    /\ exc_raised = FALSE
    /\ detailed_bids = <<>>
    /\ handed = <<>>
    /\ writes = 0
    /\ errors = 0
    /\ delayed = FALSE
    /\ extraction_errors = 0
    /\ total_operations = 0
    /\ total_errors = 0
    /\ success_rate = NoRate
    /\ NoTrigger
    /\ fetch_details = TRUE
    /\ bid_list \in FilterLists
    /\ filters \in FilterArgs

NextFilter == ApplyFilters

SpecFilter == InitFilter /\ [][NextFilter]_vars

----------------------------------------------------------------------------
(* The statistics of a run: the scrapling run at phase 3 with n bids from  *)
(* phase 1 and the errors recorded so far, n from 0 (the case the guard of *)
(* the rate is for) to MaxOps.                                             *)

\* a bid list of n summaries
RateList(n) == [k \in 1..n |-> SummaryDict(IF k % 2 = 1 THEN "r1" ELSE "r2", k)]

InitRate ==
    /\ bid_list \in {RateList(n) : n \in 0..MaxOps}
    /\ variant = "scrapling"
    /\ db = EmptyDb
    /\ txn = [p \in Runs |-> NoTxn]
    /\ lock = 0
    /\ conn = [p \in Runs |-> "none"]
    /\ pc = [p \in Runs |-> "idle"]
    /\ bids = [p \in Runs |-> <<>>]
    /\ idx = [p \in Runs |-> 1]
    /\ item_idx = [p \in Runs |-> 1]
    /\ is_new = [p \in Runs |-> FALSE]
    /\ counts = [p \in Runs |-> ZeroCounts]
    /\ attempted = [p \in Runs |-> <<>>]
    /\ old_items = [p \in Runs |-> <<>>]
    /\ rec_err = [p \in Runs |-> FALSE]
    /\ call_err = [p \in Runs |-> FALSE]
    /\ fresh = [p \in Runs |-> {}]
    /\ prev = [p \in Runs |-> NoPrev]
    /\ source = <<>>
    /\ max_pages = 0
    /\ session = TRUE
    /\ logged_in = TRUE
    /\ step = "save"
    /\ current_page = 1
    /\ on_login = FALSE
    /\ all_bids = <<>>
    /\ list_fetches = [n \in PageIndexes |-> 0]
    /\ probes = 0
    /\ ensures = 0
    /\ undelivered = FALSE
    /\ bid_idx = 1
    /\ detail_fetches = 0
    /\ detail_landed = FALSE
    /\ detailed = <<>>
    /\ auto_attempts = 0
    /\ auto_failed = 0
    /\ manual_attempts = 0
    /\ ensure_ret = "none"
    /\ cookies = 1
    /\ result = NoResult
    /\ escaped = ""
    /\ exc_raised = FALSE
    /\ detailed_bids = bid_list
    /\ handed = <<>>
    /\ writes = 0
    /\ errors \in 0..Len(bid_list)
    /\ delayed = FALSE
    /\ extraction_errors \in 0..1
    /\ total_operations = 0
    /\ total_errors = 0
    /\ success_rate = NoRate
    /\ NoTrigger
    /\ fetch_details = TRUE
    /\ filters = NoFilters

NextRate ==
    \/ SaveAll
    \/ CalculateSuccessRate

SpecRate == InitRate /\ [][NextRate]_vars

----------------------------------------------------------------------------
(* The scrapling run with its persistence call carried out: phase 3 is     *)
(* save_to_database over the list of phase 2, statement by statement, and  *)
(* the counts it returns go into the run's statistics and result.          *)

\* The bid dict as save_to_database reads it; the detail page of r2 has a
\* line-item table of one row, that of r1 has none
PersistDict(b) ==
    [reference_number |-> b.reference_number,
     title |-> b.title,
     line_items |-> IF "approved_budget" \in DOMAIN b /\ b.reference_number = "r2"
                    THEN <<ExtractedItem("scrapling", 1, "a")>> ELSE <<>>]

\* save_result = await self.save_to_database(detailed_bids): the call begins
SaveCall ==
    /\ step = "save"
    /\ pc[1] = "idle"
    /\ SaveToDatabase(1, [i \in DOMAIN ToSave |-> PersistDict(ToSave[i])])

\* save_to_database has returned its counts: the run goes on to its
\* statistics, total_errors = sum(self.stats['errors'].values())
SaveReturned ==
    /\ step = "save"
    /\ pc[1] = "ret"
    /\ pc' = [pc EXCEPT ![1] = "idle"]
    /\ handed' = ToSave
    /\ writes' = writes + Len(ToSave)
    /\ total_operations' = Len(bid_list)
    /\ total_errors' = extraction_errors + errors + counts[1].failed
    /\ step' = "rate"
    /\ UNCHANGED <<source, max_pages, session, logged_in, current_page, on_login, all_bids,
                   list_fetches, probes, ensures, undelivered, bid_idx, detail_fetches,
                   detail_landed, detailed, variant>>
    /\ UNCHANGED <<loginVars, inputVars, outcomeVars, bid_list, detailed_bids, errors>>
    /\ UNCHANGED <<delayed, extraction_errors, success_rate, triggerVars>>
    /\ UNCHANGED <<db, txn, lock, conn, bids, idx, item_idx, is_new, counts,
                   attempted, old_items, rec_err, call_err, fresh, prev>>

\* asyncpg.connect raised out of save_to_database: the except clause of
\* run_daily_scrape
SaveRaised ==
    /\ step = "save"
    /\ pc[1] = "raised"
    /\ pc' = [pc EXCEPT ![1] = "idle"]
    /\ handed' = ToSave
    /\ Raise("database connection failed")
    /\ UNCHANGED <<source, max_pages, session, logged_in, current_page, on_login, all_bids,
                   list_fetches, probes, ensures, undelivered, bid_idx, detail_fetches,
                   detail_landed, detailed, variant>>
    /\ UNCHANGED <<loginVars, inputVars, bid_list, detailed_bids, writes, errors>>
    /\ UNCHANGED <<statVars, triggerVars>>
    /\ UNCHANGED <<db, txn, lock, conn, bids, idx, item_idx, is_new, counts,
                   attempted, old_items, rec_err, call_err, fresh, prev>>

\* One scrapling scraper, with or without detail fetching, no filters
InitAccount ==
    /\ InitRun
    /\ variant = "scrapling"
    /\ filters = NoFilters

NextAccount ==
    \/ RunDailyScrape
    \/ Expire
    \/ EnsureFirst
    \/ CheckCap
    \/ FetchPage
    \/ Relogin
    \/ RetryPage
    \/ ExtractRows
    \/ NextPage
    \/ ListReturned
    \/ DetailFetch
    \/ MergeDetail
    \/ SaveCall
    \/ Connect(1)
    \/ SelectExisting(1)
    \/ Upsert(1)
    \/ DeleteLineItems(1)
    \/ InsertLineItem(1)
    \/ Tally(1)
    \/ CloseAndReturn(1)
    \/ SaveReturned
    \/ SaveRaised
    \/ CalculateSuccessRate

SpecAccount == InitAccount /\ [][NextAccount]_vars

----------------------------------------------------------------------------
(* Incremental mode of the playwright run: after phase 1 the bids whose    *)
(* reference number is already stored are taken off the list.              *)

\* The database before the run, holding a bid row for each reference of refs
StoredDb(refs) ==
    [opps |-> [r \in Refs |-> IF r \in refs THEN <<OppRow(SummaryDict(r, 1))>> ELSE <<>>],
     items |-> EmptyDb.items]

\* get_existing_bid_refs: {row[0] for row in cursor.fetchall()} of
\* SELECT reference_number FROM bid_opportunities; `if not self.db_conn:
\* return set()`, and `except Exception: ... return set()` when the read raises
ExistingBidRefs == {StoredRefs(db), {}}

\* `if incremental:` existing_refs = self.get_existing_bid_refs();
\* bid_list = [b for b in bid_list if b['reference_number'] not in existing_refs];
\* `if not bid_list: return {'success': True, 'total_bids': 0, ...}`
FilterExisting ==
    /\ step = "existing"
    /\ \E existing_refs \in ExistingBidRefs :
          LET kept == SelectSeq(bid_list, LAMBDA b : b.reference_number \notin existing_refs)
          IN  /\ bid_list' = kept
              /\ step' = IF kept = <<>> THEN "scraped"
                         ELSE IF FiltersApplied THEN "filter" ELSE AfterFilter
              /\ result' = IF kept = <<>> THEN SuccessResult ELSE result
    /\ UNCHANGED <<source, max_pages, session, logged_in, current_page, on_login, all_bids,
                   list_fetches, probes, ensures, undelivered, bid_idx, detail_fetches,
                   detail_landed, detailed, variant>>
    /\ UNCHANGED <<loginVars, inputVars, escaped, exc_raised, detailed_bids, handed,
                   writes, errors>>
    /\ UNCHANGED <<statVars, triggerVars>>
    /\ UNCHANGED persistVars

\* The bid lists phase 1 hands to an incremental run
IncrementalLists ==
    UNION {[1..n -> {SummaryDict(r, 1) : r \in Refs}] : n \in 1..MaxFilterIn}

\* run_daily_scrape(incremental=True) of playwright with phase 1 over, on a
\* database holding any of the bids
InitIncremental ==
    /\ variant = "playwright"
    /\ db \in {StoredDb(refs) : refs \in SUBSET Refs}
    /\ txn = [p \in Runs |-> NoTxn]
    /\ lock = 0
    /\ conn = [p \in Runs |-> "none"]
    /\ pc = [p \in Runs |-> "idle"]
    /\ bids = [p \in Runs |-> <<>>]
    /\ idx = [p \in Runs |-> 1]
    /\ item_idx = [p \in Runs |-> 1]
    /\ is_new = [p \in Runs |-> FALSE]
    /\ counts = [p \in Runs |-> ZeroCounts]
    /\ attempted = [p \in Runs |-> <<>>]
    /\ old_items = [p \in Runs |-> <<>>]
    /\ rec_err = [p \in Runs |-> FALSE]
    /\ call_err = [p \in Runs |-> FALSE]
    /\ fresh = [p \in Runs |-> {}]
    /\ prev = [p \in Runs |-> NoPrev]
    /\ source = <<>>
    /\ max_pages = 0
    /\ session \in BOOLEAN
    /\ logged_in = TRUE
    /\ step = "existing"
    /\ current_page = 1
    /\ on_login = FALSE
    /\ all_bids = <<>>
    /\ list_fetches = [n \in PageIndexes |-> 0]
    /\ probes = 0
    /\ ensures = 0
    /\ undelivered = FALSE
    /\ bid_idx = 1
    /\ detail_fetches = 0
    /\ detail_landed = FALSE
    /\ detailed = <<>>
    /\ auto_attempts = 0
    /\ auto_failed = 0
    /\ manual_attempts = 0
    /\ ensure_ret = "none"
    /\ cookies = 0
    /\ result = NoResult
    /\ escaped = ""
    /\ exc_raised = FALSE
    /\ detailed_bids = <<>>
    /\ handed = <<>>
    /\ writes = 0
    /\ errors = 0
    /\ delayed = FALSE
    /\ extraction_errors = 0
    /\ total_operations = 0
    /\ total_errors = 0
    /\ success_rate = NoRate
    /\ NoTrigger
    /\ fetch_details \in BOOLEAN
    /\ filters = NoFilters
    /\ bid_list \in IncrementalLists

NextIncremental ==
    \/ FilterExisting
    \/ DetailFetch
    \/ MergeDetail
    \/ SaveAll

SpecIncremental == InitIncremental /\ [][NextIncremental]_vars

----------------------------------------------------------------------------
(* One run from its call to its return.  Every step of run_daily_scrape is *)
(* a statement of one coroutine: once it can be taken it is taken, each    *)
(* fetch, login and storage call returning or raising.  The site ending    *)
(* the session is not a step of the run.                                   *)

\* run_daily_scrape called on the scraper as constructed
StartRun ==
    /\ step = "idle"
    /\ RunDailyScrape

\* The statements of run_daily_scrape and of scrape_current_opportunities_list
RunStep ==
    \/ EnsureFirst
    \/ CheckCap
    \/ FetchPage
    \/ Relogin
    \/ RetryPage
    \/ ExtractRows
    \/ NextPage
    \/ ListReturned
    \/ DetailFetch
    \/ MergeDetail
    \/ SaveAll
    \/ CalculateSuccessRate

NextTerminate ==
    \/ StartRun
    \/ Expire
    \/ EnsureFirst
    \/ CheckCap
    \/ FetchPage
    \/ Relogin
    \/ RetryPage
    \/ ExtractRows
    \/ NextPage
    \/ ListReturned
    \/ DetailFetch
    \/ MergeDetail
    \/ SaveAll
    \/ CalculateSuccessRate

FairRun == WF_vars(RunStep)

\* The sites of the run: pages of two bid notices, with or without a next
\* button, each site with finitely many pages that are not empty
TerminateSources ==
    {s \in Sources : \A n \in DOMAIN s : s[n] = EmptyPage \/ s[n].rows = <<"r1", "r2">>}

\* run_daily_scrape(max_pages) with no cap (None) or a cap of one page
InitTerminate ==
    /\ InitScrape
    /\ source \in TerminateSources
    /\ max_pages \in {0, 1}

SpecTerminate == InitTerminate /\ [][NextTerminate]_vars /\ FairRun

----------------------------------------------------------------------------
(* The trigger layer: POST /scrape/trigger and its background job          *)
(* run_scrape_job (api.py), and the daily_scrape_job of the scheduler.     *)
(* The handlers are coroutines on one event loop: a handler runs without   *)
(* interruption up to its next await.  run_daily_scrape is the await of a  *)
(* job; of the run only how it ends is kept.  A request's job is "none"    *)
(* (no request), "rejected" (409), "accepted" (added to the background     *)
(* tasks, not started), "running" (inside run_daily_scrape), or ended:     *)
(* "succeeded", "failed" (a result with success False) or "raised".        *)

\* How the run of a job can end
RunOutcomes == {"succeeded", "failed", "raised"}

\* str(e) of an exception that left run_daily_scrape
RaisedMessage == "run raised"

\* What run_scrape_job stores: `last_scrape_result = result`, or the dict of
\* the except clause with "success": False and "error": str(e)
JobResult(j, o) ==
    [job |-> j,
     success |-> (o = "succeeded"),
     error |-> IF o = "succeeded" THEN ""
               ELSE IF o = "failed" THEN NoBidsError
               ELSE RaisedMessage]

\* The flag left as it is when the job ends (mutation of FinallyFlag)
FlagLeftSet == TRUE

\* finally: scraping_in_progress = False
FinallyFlag == FALSE

\* trigger_scrape: `if scraping_in_progress: raise HTTPException(409)`, else
\* background_tasks.add_task(run_scrape_job) and the success response; the
\* flag is not written here
TriggerScrape(j) ==
    /\ job[j] \notin {"accepted", "running"}
    /\ job' = [job EXCEPT ![j] = IF scraping_in_progress THEN "rejected" ELSE "accepted"]
    /\ UNCHANGED <<scraping_in_progress, last_scrape_result, sched>>
    /\ UNCHANGED <<variant, persistVars, scraperVars>>

\* run_scrape_job up to its await: scraping_in_progress = True;
\* result = await scraper.run_daily_scrape()
StartJob(j) ==
    /\ job[j] = "accepted"
    /\ job' = [job EXCEPT ![j] = "running"]
    /\ scraping_in_progress' = TRUE
    /\ UNCHANGED <<last_scrape_result, sched>>
    /\ UNCHANGED <<variant, persistVars, scraperVars>>

\* run_scrape_job after its await: the result stored, or the except clause,
\* then the finally clause
FinishJob(j) ==
    /\ job[j] = "running"
    /\ \E o \in RunOutcomes :
          /\ job' = [job EXCEPT ![j] = o]
          /\ last_scrape_result' = JobResult(j, o)
    /\ scraping_in_progress' = FinallyFlag
    /\ UNCHANGED sched
    /\ UNCHANGED <<variant, persistVars, scraperVars>>

\* daily_scrape_job started by the scheduler: its own PhilGEPSScraper, and
\* no look at the flag of api.py
DailyStart ==
    /\ sched = "idle"
    /\ sched' = "running"
    /\ UNCHANGED <<scraping_in_progress, last_scrape_result, job>>
    /\ UNCHANGED <<variant, persistVars, scraperVars>>

\* daily_scrape_job returns its result (or the dict of its except clause)
\* to the scheduler; finally: scraper.close()
DailyFinish ==
    /\ sched = "running"
    /\ sched' = "idle"
    /\ UNCHANGED <<scraping_in_progress, last_scrape_result, job>>
    /\ UNCHANGED <<variant, persistVars, scraperVars>>

\* main(): the scheduler started, then the API served; the scraper of
\* api.py constructed, no run begun
InitTrigger ==
    /\ InitScrape
    /\ variant = "scrapling"
    /\ source = <<>>
    /\ max_pages = 0
    /\ session = FALSE

NextTrigger ==
    \/ \E j \in Requests : TriggerScrape(j)
    \/ \E j \in Requests : StartJob(j)
    \/ \E j \in Requests : FinishJob(j)
    \/ DailyStart
    \/ DailyFinish

SpecTrigger == InitTrigger /\ [][NextTrigger]_vars

\* The event loop runs every task it holds, and a run comes to an end
FairTrigger ==
    \A j \in Requests : WF_vars(StartJob(j)) /\ WF_vars(FinishJob(j))

SpecTriggerLive == InitTrigger /\ [][NextTrigger]_vars /\ FairTrigger

----------------------------------------------------------------------------
(* Claims about persistence, checked under SpecPersist *)

\* Run p has just persisted the bid at idx and no storage call raised for it.
PersistedOk(p) == pc[p] \in {"tally", "saved"} /\ ~rec_err[p]

\* The stored line items of ref are exactly the items of li, column by column.
StoredItemsAre(ref, li) ==
    /\ Len(db.items[ref]) = Len(li)
    /\ \A i \in DOMAIN li :
        /\ db.items[ref][i].lot_name = li[i].lot_name
        /\ variant = "scrapling" =>
              /\ db.items[ref][i].item_no = li[i].item_no
              /\ db.items[ref][i].lot_description = li[i].lot_description
        /\ variant = "playwright" =>
              db.items[ref][i].lot_description = li[i].description

\* Run p returned from persisting the single bid r for the second time in a
\* row, r not stored before the first time, and no storage call raised.
PersistedTwice(p) ==
    /\ pc[p] = "ret"
    /\ prev[p].valid
    /\ bids[p] = <<prev[p].bid>>
    /\ ~call_err[p]

\* C1: persisting a bid record r, not stored before, twice in a row with the
\* same field values returns new=1, updated=0, failed=0 the first time and
\* new=0, updated=1, failed=0 the second time (the playwright variant, which
\* only counts saves, counts one save each time), and storage then holds
\* exactly one bid row for r's reference number, with r's field values.
C1_IdempotentUpsert ==
    \A p \in Runs : PersistedTwice(p) =>
        LET r == prev[p].bid
            rows == db.opps[r.reference_number]
        IN /\ variant = "scrapling" =>
                /\ prev[p].res = [new |-> 1, updated |-> 0, failed |-> 0, saved |-> 0]
                /\ counts[p] = [new |-> 0, updated |-> 1, failed |-> 0, saved |-> 0]
           /\ variant = "playwright" =>
                /\ prev[p].res.saved = 1
                /\ counts[p].saved = 1
           /\ Len(rows) = 1
           /\ rows[1].reference_number = r.reference_number
           /\ rows[1].title = r.title

C1_Witness ==
    /\ PersistedTwice(1)
    /\ variant = "scrapling"
    /\ counts[1].updated = 1
    /\ Len(prev[1].bid.line_items) = 2

\* C2: after a bid record carrying a non-empty line-item list L was persisted
\* without error, the line items stored for its reference number are exactly
\* the items of L, whatever was stored for it before.
C2_LineItemsReplaced ==
    \A p \in Runs :
        (PersistedOk(p) /\ Truthy(Bid(p).line_items)) =>
            StoredItemsAre(Bid(p).reference_number, Bid(p).line_items)

\* three items stored before, one item persisted now
C2_Witness ==
    /\ PersistedOk(1)
    /\ Len(old_items[1]) = 3
    /\ Len(Bid(1).line_items) = 1
    /\ Len(db.items[Bid(1).reference_number]) = 1

\* C3 (the claim as stated): after any bid record was persisted without
\* error, no line item stored for its reference number before remains unless
\* it is in the record's current line-item list -- also when that list is
\* empty or missing.
C3_FullReplaceAlways ==
    \A p \in Runs : PersistedOk(p) =>
        \A i \in DOMAIN db.items[Bid(p).reference_number] :
            \E j \in DOMAIN Bid(p).line_items :
                db.items[Bid(p).reference_number][i] = ItemRow(variant, Bid(p).line_items[j])

\* C4: under every interleaving of two concurrent scrape runs persisting a
\* record with the same reference number, storage never holds more than one
\* bid row for a reference number (the committed tables, and the tables as
\* seen inside either run's open transaction).
C4_NoDoubleInsert ==
    \A r \in Refs :
        /\ Len(db.opps[r]) <= 1
        /\ \A p \in Runs : Len(View(p).opps[r]) <= 1

\* both runs found no row for r1; one committed its INSERT, the other's was
\* refused
C4_Witness ==
    /\ variant = "playwright"
    /\ is_new[1] /\ is_new[2]
    /\ pc[1] = "saved"
    /\ rec_err[2]
    /\ Len(db.opps["r1"]) = 1

\* C5: save_to_database over a list of n records attempts every record in
\* input order -- a failure on record i is counted in failed and the records
\* after it are still attempted -- and the returned counts satisfy
\* new + updated + failed = n.
C5_EveryRecordAttempted ==
    (variant = "scrapling" /\ pc[1] = "ret") =>
        /\ attempted[1] = [i \in DOMAIN bids[1] |-> bids[1][i].reference_number]
        /\ counts[1].new + counts[1].updated + counts[1].failed = Len(bids[1])
        /\ call_err[1] <=> counts[1].failed > 0

\* the first of three records failed, the two after it were persisted
C5_Witness ==
    /\ pc[1] = "ret"
    /\ Len(bids[1]) = 3
    /\ Len(attempted[1]) = 3
    /\ counts[1].failed = 1
    /\ counts[1].new = 2

----------------------------------------------------------------------------
(* Claims about the scrape run, checked under SpecScrape *)

\* scrape_current_opportunities_list has returned all_bids
ListDone == step \in {"listed", "filter", "detail", "merge", "save", "rate", "scraped"}

\* The source is k pages with rows, k = Len(source); page k+1 is empty.
NonEmptyPages == \A n \in DOMAIN source : source[n].rows # <<>>

\* Every page before the last offers an enabled next-page affordance.
NextOnInnerPages == \A n \in DOMAIN source : n < Len(source) => source[n].next

\* The summaries of pages 1..k, page after page, row after row.
RECURSIVE PagesThrough(_)
PagesThrough(k) ==
    IF k = 0 THEN <<>> ELSE PagesThrough(k - 1) \o RowSummaries(source[k].rows, k)

\* what C6 concludes
ExactlyThePages ==
    /\ \A n \in PageIndexes : n > Len(source) + 1 => list_fetches[n] = 0
    /\ (ListDone /\ ~undelivered) => all_bids = PagesThrough(Len(source))

\* C6 (amended): for a source of k non-empty listing pages followed by an
\* empty page, each page before the k-th offering an enabled next-page
\* affordance, and no page cap, the indexer -- when every page it reads was
\* delivered (not a login response after the one retry, no extraction
\* error) -- returns exactly the reference-carrying rows of pages 1..k, in
\* page order then row order, and never fetches a page index beyond k+1.
C6_PaginationExact ==
    (max_pages = 0 /\ NonEmptyPages /\ NextOnInnerPages) => ExactlyThePages

C6_Witness ==
    /\ variant = "scrapling"
    /\ max_pages = 0 /\ NonEmptyPages /\ NextOnInnerPages
    /\ Len(source) = 2
    /\ source[1].rows # source[2].rows
    /\ step = "listed"
    /\ ~undelivered
    /\ list_fetches[3] = 1
    /\ Len(all_bids) = 3

\* C6 (as stated): the same without the premise on the next-page affordance.
C6_AsStated ==
    (max_pages = 0 /\ NonEmptyPages) => ExactlyThePages

\* C7: with a page cap max_pages = m >= 1 the indexer never fetches a
\* listing page with index greater than m, and every summary it collects
\* comes from a page with index in 1..m.
C7_CapRespected ==
    max_pages >= 1 =>
        /\ \A n \in PageIndexes : n > max_pages => list_fetches[n] = 0
        /\ \A i \in DOMAIN all_bids : all_bids[i].page \in 1..max_pages

\* the cap stopped the loop in front of a page that has rows
C7_Witness ==
    /\ max_pages = 1
    /\ step = "listed"
    /\ current_page = 2
    /\ SourcePage(2).rows # <<>>
    /\ all_bids # <<>>

\* C8 (the claim as stated): when a fetched listing page n has at least one
\* row but offers no enabled next-page affordance, page n+1 is never fetched.
C8_StopsWithoutNext ==
    \A n \in DOMAIN source :
        (list_fetches[n] > 0 /\ source[n].rows # <<>> /\ ~source[n].next)
            => list_fetches[n + 1] = 0

\* C9 (amended): when a listing fetch lands on the login path the flag is
\* cleared, ensure_logged_in is run again and the same page is fetched once
\* more, that response not being tested again; so the listing loop issues at
\* most two fetches per page index (the loads of the page-1 listing URL that
\* ensure_logged_in itself makes in the playwright variant not counted).
C9_RetryOnce ==
    /\ \A n \in PageIndexes : list_fetches[n] <= 2
    /\ step = "relogin" => (~logged_in /\ on_login /\ list_fetches[current_page] = 1)
    /\ step = "retry" => (ensures >= 2 /\ list_fetches[current_page] = 1)
    /\ (step = "extract" /\ on_login) => list_fetches[current_page] = 2

\* the retried fetch landed on the login path again and is read as it is
C9_Witness ==
    /\ step = "extract"
    /\ on_login
    /\ list_fetches[current_page] = 2
    /\ ensures = 2
    /\ current_page = 2

\* C9 (as stated): no page index is fetched more than twice in one run,
\* every load of a listing URL counted.
C9_AsStated ==
    \A n \in PageIndexes : list_fetches[n] + (IF n = 1 THEN probes ELSE 0) <= 2

\* C10 (the claim as stated): when a detail fetch lands on the login path,
\* the flag is cleared, ensure_logged_in is run again and the detail request
\* is issued a second time.
C10_DetailExpiryRetried ==
    (step = "merge" /\ detail_landed) => (detail_fetches = 2 /\ ensures >= 2)


\* C11: a call of ensure_logged_in made while the logged-in flag is set
\* returns true, makes no automated login attempt, no manual one and no
\* probe of the site, and leaves the flag and the cookies as they were.
C11_AuthenticatedNoLogin ==
    [][(logged_in /\ ensures' = ensures + 1) =>
          /\ ensure_ret' = "true"
          /\ logged_in'
          /\ step' # "failed"
          /\ auto_attempts' = 0 /\ manual_attempts' = 0
          /\ UNCHANGED <<cookies, probes>>]_vars

\* A run whose first ensure_logged_in call found the flag set
C11_Witness ==
    /\ ensures = 1
    /\ logged_in
    /\ ensure_ret = "true"
    /\ auto_attempts = 0 /\ manual_attempts = 0 /\ probes = 0


\* C12: in scrapling, an automated login attempt that did not succeed (the
\* login page fetch raising included) was followed by a manual attempt in
\* the same ensure_logged_in call, and no manual attempt was made otherwise:
\* the manual attempts of a call are as many as its failed automated ones.
C12_ManualAfterFailedAutomated ==
    variant = "scrapling" => manual_attempts = auto_failed


\* C13: when the ensure_logged_in call that opens phase 1 did not return
\* true, the run fetches no listing page and no detail page, and it does
\* not end with success = true.
C13_AuthFailureFatal ==
    (ensures = 1 /\ ensure_ret # "true") =>
        /\ \A n \in PageIndexes : list_fetches[n] = 0
        /\ detail_fetches = 0
        /\ step # "scraped"
        /\ ~result.success


\* C14: when phase 1 ends with no record, run_daily_scrape returns (no
\* exception reaches its except clause) success = false with the error
\* message of the variant, 'No bids found' in scrapling and 'No bids found
\* in list' in playwright, having fetched no detail page and handed nothing
\* to storage.
C14_NoBidsFound ==
    [][(step = "listed" /\ all_bids = <<>> /\ step' # "listed") =>
          /\ step' = "failed"
          /\ result' = [success |-> FALSE,
                        error |-> IF variant = "scrapling" THEN "No bids found"
                                  ELSE "No bids found in list"]
          /\ escaped' = ""
          /\ detailed' = <<>>
          /\ handed' = <<>> /\ writes' = 0]_vars

\* A run that listed nothing and returned the no-bids result
C14_Witness ==
    /\ step = "failed"
    /\ all_bids = <<>>
    /\ list_fetches[1] >= 1
    /\ escaped = ""
    /\ result = [success |-> FALSE, error |-> NoBidsError]

\* C14 with the one message the statement gives for both variants
C14_AsStated ==
    [][(step = "listed" /\ all_bids = <<>> /\ step' # "listed") =>
          /\ step' = "failed"
          /\ result' = [success |-> FALSE, error |-> "No bids found"]
          /\ escaped' = ""
          /\ detailed' = <<>>
          /\ handed' = <<>> /\ writes' = 0]_vars


\* C15: an exception that leaves the list, detail or persist phase and
\* reaches the except clause of run_daily_scrape ends the run with a
\* returned result of success = false whose error is the message of that
\* exception; the run then stands ended, nothing having been propagated.
\* (An exception handled inside a phase, in the row extraction, in
\* scrape_bid_detail or for one record of the persistence, ends nothing.)
C15_EscapedExceptionReturned ==
    escaped # "" =>
        /\ step = "failed"
        /\ result = [success |-> FALSE, error |-> escaped]

\* A run ended by the exception of the database connection in phase 3,
\* after the records were put together
C15_Witness ==
    /\ escaped = "database connection failed"
    /\ step = "failed"
    /\ result = [success |-> FALSE, error |-> escaped]
    /\ handed # <<>>
    /\ writes = 0

\* C15 for every exception raised in a phase, the handled ones included
C15_AsStated ==
    exc_raised =>
        /\ step # "scraped"
        /\ step = "failed" => (escaped # "" /\ result = [success |-> FALSE, error |-> escaped])


\* The bids of the run whose detail fetch returned nothing or raised
FailedDetails == {i \in 1..Len(detailed_bids) : detailed[i] = "none"}

\* C16: the record of a bid whose detail fetch failed, as put together and
\* as handed to persistence, has the summary keys only, each with its
\* summary value; scrapling records one detail error for each such bid and
\* no other; and the bids after it are processed all the same: the run hands
\* one record for each listed bid to persistence.
C16_FailedDetailKeepsSummary ==
    /\ \A i \in FailedDetails :
          /\ DOMAIN detailed_bids[i] = SummaryKeys
          /\ detailed_bids[i] = SummaryDict(bid_list[i].reference_number, bid_list[i].page)
          /\ i <= Len(handed) => handed[i] = detailed_bids[i]
    /\ variant = "scrapling" => errors = Cardinality(FailedDetails)
    /\ step = "save" => Len(ToSave) = Len(bid_list)
    /\ step = "scraped" => (handed = ToSave /\ Len(handed) = Len(bid_list))

\* A scrapling run of two bids: the first detail fetch failed, the second
\* went through, both records were stored
C16_Witness ==
    /\ variant = "scrapling"
    /\ step = "scraped"
    /\ Len(handed) = 2
    /\ detailed = <<"none", "full">>
    /\ errors = 1
    /\ "approved_budget" \notin DOMAIN handed[1]
    /\ "approved_budget" \in DOMAIN handed[2]


\* C17: in the merged record of a bid whose detail fetch went through, a
\* field that both the summary and the detail dict carry has the detail
\* value when the detail extraction yielded one, and the summary value when
\* it yielded none.
C17_SharedFieldsMerged ==
    \A i \in 1..Len(detailed_bids) :
        detailed[i] = "full" =>
            LET bid == bid_list[i]
                detail == DetailDict(bid.reference_number, DetailPage(bid.reference_number))
            IN  \A k \in DOMAIN bid \cap DOMAIN detail :
                    detailed_bids[i][k] = IF detail[k] # NoVal THEN detail[k] ELSE bid[k]


\* What the statement asks of a record: every predicate whose parameter was
\* supplied holds of it
Satisfies(bid, f) ==
    /\ DateActive(f) => DateFilter(bid, f)
    /\ f.classifications # {} => ClassificationFilter(bid, f)
    /\ BudgetActive(f) => BudgetFilter(bid, f)
    /\ f.keywords # {} => KeywordFilter(bid, f)

\* C18: filter_bids returns, and what it returns is the input records that
\* satisfy every active predicate, in the order of the input.
C18_FilterExact ==
    [][step = "filter" =>
          /\ step' # "failed"
          /\ bid_list' = SelectSeq(bid_list, LAMBDA b : Satisfies(b, filters))]_vars


\* The listed bids whose detail page gives a budget inside the range asked for
InRangeListed ==
    {i \in 1..Len(all_bids) : BudgetFilter(DetailPage(all_bids[i].reference_number), filters)}

\* C19: a run with a budget filter and with detail fetching that went
\* through has handed to storage every listed bid whose detail page gives a
\* budget inside the range.
C19_BudgetAfterDetails ==
    (step = "scraped" /\ fetch_details /\ BudgetActive(filters)) =>
        \A i \in InRangeListed :
            \E j \in 1..Len(handed) :
                handed[j].reference_number = all_bids[i].reference_number

\* C20: a run asked for with a budget filter and without detail fetching
\* does not go through: it ends with an error outcome and writes nothing.
C20_BudgetNeedsDetails ==
    (BudgetActive(filters) /\ ~fetch_details) =>
        /\ step # "scraped"
        /\ ~result.success
        /\ writes = 0


\* C21: in a run given filters, every record handed to storage satisfies
\* every active filter predicate.
C21_WrittenSatisfyFilters ==
    filters # NoFilters =>
        \A j \in 1..Len(handed) : Satisfies(handed[j], filters)


\* C23: the phases of a run are strictly sequential: no detail page is
\* fetched before the listing phase has returned, and nothing is written to
\* storage before the detail fetch of the last bid has completed.
C23_PhasesSequential ==
    /\ (detail_fetches > 0 \/ detailed # <<>>) => bid_list # <<>>
    /\ (fetch_details /\ writes > 0) => Len(detailed) = Len(bid_list)


\* C28: a listing-page fetch that raises is a failure of that fetch, not
\* of the run: the run does not end with success false because of it.
C28_ListingFetchFailureContained ==
    step = "failed" => result.error # "listing fetch failed"


\* C26: every summary collected has a reference number, and a listing row
\* without one is dropped without ending the extraction: the page's other
\* rows are collected, one summary for each in the order of the page, and
\* the loop goes on to the next page.
C26_RowsWithoutReferenceDropped ==
    [][/\ \A i \in 1..Len(all_bids') : all_bids'[i].reference_number # NoVal
       /\ (step = "extract" /\ step' = "next") =>
             LET kept == SelectSeq(Rows, LAMBDA r : r # NoVal)
             IN  /\ Len(all_bids') = Len(all_bids) + Len(kept)
                 /\ \A i \in 1..Len(kept) :
                       /\ all_bids'[Len(all_bids) + i].reference_number = kept[i]
                       /\ all_bids'[Len(all_bids) + i].page = current_page
                 /\ SubSeq(all_bids', 1, Len(all_bids)) = all_bids]_vars

\* A row without a reference number came before a row with one on page 1,
\* and the summaries of page 1 and of page 2 are collected
C26_Witness ==
    /\ Len(source) >= 2
    /\ Len(source[1].rows) >= 2
    /\ source[1].rows[1] = NoVal
    /\ \E i, k \in 1..Len(all_bids) : all_bids[i].page = 1 /\ all_bids[k].page = 2


\* C24: detail pages are fetched one at a time and rate-limited: a detail
\* fetch that is not the first of its run starts only after a delay step
\* that followed the fetch before it.
C24_DelayBetweenDetailFetches ==
    [][(step = "detail" /\ step' = "merge" /\ detailed # <<>>) => delayed]_vars


\* C27: a persistence call opens the storage connection at most once (only
\* at its connect step, which is entered only at the call's entry) and has
\* closed it whenever it has returned or raised; the playwright run opens no
\* connection of its own (its scraper's connection is that of __init__).
C27_ConnectionOpenedOnceAndClosed ==
    [][\A p \in Runs :
          /\ (conn'[p] = "open" /\ conn[p] # "open") =>
                \/ pc[p] = "new"
                \/ pc[p] = "connect" /\ pc'[p] = "select"
          /\ (pc'[p] = "connect" /\ pc[p] # "connect") => pc[p] \in {"idle", "ret", "raised"}
          /\ (variant = "scrapling" /\ pc'[p] \in {"ret", "raised"}) => conn'[p] # "open"
          /\ (variant = "playwright" /\ pc[p] # "new") => conn'[p] = conn[p]]_vars

\* A call of save_to_database that opened the connection, failed on a
\* record, and has returned with the connection closed
C27_Witness ==
    /\ variant = "scrapling"
    /\ pc[1] = "ret"
    /\ conn[1] = "closed"
    /\ counts[1].failed > 0


\* C25: total_operations is the number of bids phase 1 returned and
\* total_errors the sum of the error counts recorded; the success rate is
\* (total_operations - total_errors) * 100 / total_operations when
\* total_operations > 0 and 0 when it is 0 (10 operations with 2 errors: 80).
C25_SuccessRate ==
    [][/\ (step = "save" /\ step' = "rate") =>
             /\ total_operations' = Len(bid_list)
             /\ total_errors' >= extraction_errors + errors
             /\ total_errors' <= extraction_errors + errors + Len(bid_list)
       /\ (step = "rate" /\ step' = "scraped") =>
             /\ success_rate'.den > 0
             /\ IF total_operations > 0
                THEN success_rate'.num * total_operations
                        = (total_operations - total_errors) * 100 * success_rate'.den
                ELSE success_rate'.num = 0
             /\ (total_operations = 10 /\ total_errors = 2) =>
                    success_rate' = [num |-> 80, den |-> 1]]_vars

\* The rate of a run with 10 operations and 2 errors is 80
C25_Witness ==
    /\ step = "scraped"
    /\ total_operations = 10
    /\ total_errors = 2
    /\ success_rate = [num |-> 80, den |-> 1]


\* The scrape runs executing: the background jobs inside run_daily_scrape
\* and the scheduled daily job
Executing ==
    Cardinality({j \in Requests : job[j] = "running"}) + (IF sched = "running" THEN 1 ELSE 0)

\* C22: at most one scrape run is executing at any time, and a trigger
\* request is accepted only when no run is executing and no accepted job is
\* waiting to start.
C22_NoConcurrentRuns ==
    [][/\ Executing' <= 1
       /\ \A j \in Requests :
             (job'[j] = "accepted" /\ job[j] # "accepted") =>
                 /\ Executing = 0
                 /\ \A k \in Requests : job[k] # "accepted"]_vars

\* C29: scraping_in_progress is true exactly while some job started through
\* the trigger layer is executing.
C29_StatusAccurate ==
    scraping_in_progress <=> (\E j \in Requests : job[j] = "running")

\* C30: the step that ends a started job, however its run ended, leaves
\* scraping_in_progress false and last_scrape_result that job's outcome (the
\* result, or success false with the exception's message); and every running
\* job comes to that step.
C30_JobEndsInProgress ==
    /\ [][\A j \in Requests :
             (job[j] = "running" /\ job'[j] # "running") =>
                 /\ job'[j] \in RunOutcomes
                 /\ ~scraping_in_progress'
                 /\ last_scrape_result'.job = j
                 /\ last_scrape_result'.success = (job'[j] = "succeeded")
                 /\ job'[j] = "succeeded" => last_scrape_result'.error = ""
                 /\ job'[j] = "failed" => last_scrape_result'.error = NoBidsError
                 /\ job'[j] = "raised" => last_scrape_result'.error = RaisedMessage]_vars
    /\ \A j \in Requests : (job[j] = "running") ~> (job[j] \in RunOutcomes)

\* The run of job 1 raised: the flag is down and the last result is the
\* record of the except clause
C30_Witness ==
    /\ job[1] = "raised"
    /\ ~scraping_in_progress
    /\ last_scrape_result = [job |-> 1, success |-> FALSE, error |-> RaisedMessage]


\* C31: in every committed storage state, the reference number of each
\* stored line item is the key of a stored bid record.
C31_LineItemsHaveBid ==
    \A r \in Refs : db.items[r] # <<>> => RowExists(db, r)


\* C32: when two concurrent save_to_database calls have persisted the same
\* reference number, stored before neither call began, and no storage call
\* raised, exactly one of them counted the record as new and the other as
\* updated: the new counts add up to the rows inserted.
C32_OneNewOneUpdated ==
    (/\ variant = "scrapling"
     /\ \A p \in Runs : /\ pc[p] = "ret"
                        /\ Len(bids[p]) = 1
                        /\ bids[p][1].reference_number = "r1"
                        /\ "r1" \in fresh[p]
                        /\ ~call_err[p])
    => /\ counts[1].new + counts[2].new = Len(db.opps["r1"])
       /\ counts[1].updated + counts[2].updated = 1
       /\ counts[1].failed + counts[2].failed = 0


\* C33: a record that save_to_database counts as failed leaves storage as
\* it was before the attempt for its reference number; in particular the
\* stored line items are those stored when the attempt began.
C33_FailedRecordLeavesStorage ==
    [][\A p \in Runs :
          (variant = "scrapling" /\ counts'[p].failed > counts[p].failed) =>
              db'.items[Bid(p).reference_number] = old_items'[p]]_vars


\* C34: every success result of the scrapling run_daily_scrape accounts for
\* each listed bid exactly once: total_bids (the bids of phase 1) equals
\* detailed_bids (the list handed to save_to_database), which equals
\* new_bids + updated_bids + failed_bids of the counts returned.
C34_EveryBidAccounted ==
    (variant = "scrapling" /\ step = "scraped" /\ result.success) =>
        /\ Len(bid_list) = Len(handed)
        /\ Len(handed) = counts[1].new + counts[1].updated + counts[1].failed

\* A run of two listed bids ended in success after a failed detail fetch
\* and a failed record save
C34_Witness ==
    /\ variant = "scrapling"
    /\ step = "scraped"
    /\ result.success
    /\ Len(bid_list) = 2
    /\ errors = 1
    /\ counts[1].failed = 1


\* C35: the success rate of every completed run lies between 0 and 100
\* inclusive, the errors recorded in the run never exceeding the number of
\* listed bids.
C35_SuccessRateInRange ==
    (variant = "scrapling" /\ step = "scraped" /\ result.success) =>
        /\ total_errors <= total_operations
        /\ success_rate.num >= 0
        /\ success_rate.num <= 100 * success_rate.den

\* C36: in incremental mode the run issues no detail fetch and no storage
\* write for a reference number stored when the existing set was read: once
\* the list is filtered, no bid whose detail was fetched and no bid handed to
\* storage carries a stored reference number.
C36_StoredBidsUntouched ==
    (variant = "playwright" /\ step # "existing") =>
        \A r \in StoredRefs(db) :
            /\ \A k \in 1..Len(bid_list) :
                  (k < bid_idx \/ (k = bid_idx /\ step = "merge")) =>
                      bid_list[k].reference_number # r
            /\ \A k \in 1..Len(handed) : handed[k].reference_number # r

\* C37: a scrape run always terminates with a result: once run_daily_scrape
\* has been entered, the listing loop ends and the run reaches a DONE
\* outcome, a result with success true or a result with success false.
C37_RunTerminates ==
    (step = "ensure") ~>
        (/\ step \in {"scraped", "failed"}
         /\ result # NoResult
         /\ result.success = (step = "scraped"))

C37_Witness ==
    /\ step = "scraped"
    /\ result.success
    /\ current_page > 1
    /\ ensures > 1
    /\ Len(handed) > 1

============================================================================
